---------------------------- MODULE Spec2Model ----------------------------
(***************************************************************************)
(* Model of the sitrixx-website backend: the public request handlers       *)
(* (leads, reviews, customers, review-request), the Twilio webhooks        *)
(* (twilio-voice, twilio-call-status) and the notification policy they     *)
(* implement, and the admin handlers for users and tenants.                *)
(*                                                                         *)
(* Every handler is an async function; each `await` on the store or on an  *)
(* outbound channel is one atomic step of an invocation, and invocations   *)
(* interleave at those steps.  The synchronous code that follows an await  *)
(* (validation, building a body, writing the response) belongs to the same *)
(* step.  The store client resolves to {data, error} and the outbound      *)
(* clients resolve or reject: both outcomes are drawn nondeterministically.*)
(*                                                                         *)
(* Strings that the code inspects character by character (phone numbers)   *)
(* are sequences of one-character strings; strings that are only compared  *)
(* or tested for presence are TLA+ strings, Null standing for null /       *)
(* undefined / the empty string (all falsy in the source).  Message texts  *)
(* and templates are sequences of tokens (see "SMS bodies").               *)
(*                                                                         *)
(* Specifications:                                                         *)
(*   Spec         the public handlers and webhooks over a fixed set of     *)
(*                tenants;                                                 *)
(*   SpecRace     review requests and customer creations racing on one     *)
(*                contact;                                                 *)
(*   SpecTenants  tenant create and update, with the calls they route;     *)
(*   SpecPhone    normalizePhone applied to raw strings;                   *)
(*   SpecRender   the SMS body of every sending handler for one tenant     *)
(*                configuration and customer name;                         *)
(*   SpecAdmin    the admin handlers behind their gate: create user,       *)
(*                assign a user to a tenant, delete user, delete tenant;   *)
(*   SpecCascade  a tenant delete overlapping public posts for the tenant. *)
(***************************************************************************)
EXTENDS Integers, Sequences, FiniteSets, TLC

\* ------------------------------------------------------------------------
\* Bounds of the model
\* ------------------------------------------------------------------------

\* Number of handler invocations in one behaviour (they may all overlap).
MaxRequests == 2

\* Ratings submitted to POST /api/reviews range over 0..MaxRating; the
\* handler does not enforce the 1..5 range.
MaxRating == 6

\* Invocations in the behaviours of the counter-race specification.
MaxRaceRequests == 3

\* Longest run of digits in a raw phone string given to normalizePhone.
MaxDigits == 12

\* Longest run of non-digit characters before and after those digits.
MaxAffix == 2

\* Digits before the separator of a raw phone string.
AreaCodeLen == 3

\* Invocations in the behaviours of the tenant administration specification.
MaxTenantRequests == 3

\* Admin invocations that overlap.
MaxAdminRequests == 2

\* Invocations in the behaviours of the tenant delete specification.
MaxCascadeRequests == 3

\* ------------------------------------------------------------------------
\* Values
\* ------------------------------------------------------------------------

Null == "NULL"

\* JavaScript truthiness of an optional string field: `x || fallback`, `!x`.
Truthy(x) == x # Null /\ x # ""

Digits == {"0", "1", "2", "3", "4", "5", "6", "7", "8", "9"}

IsDigit(c) == c \in Digits

IsSpace(c) == c = " "

\* String.prototype.trim on a sequence of characters.
RECURSIVE TrimLeft(_)
TrimLeft(s) ==
    IF s # <<>> /\ IsSpace(Head(s)) THEN TrimLeft(Tail(s)) ELSE s

RECURSIVE TrimRight(_)
TrimRight(s) ==
    IF s # <<>> /\ IsSpace(s[Len(s)]) THEN TrimRight(SubSeq(s, 1, Len(s) - 1)) ELSE s

\* Variant: String.prototype.trimStart in place of trim.
Trim_LeftOnly(s) == TrimLeft(s)

Trim(s) == TrimRight(TrimLeft(s))

\* Digit counts normalizePhone recognises.
LocalDigits == 10

CountryDigits == 11

\* Variant: a 10-digit number gets the country code without the '+'.
normalizePhone_Bare(raw) ==
    IF raw = <<>> THEN raw
    ELSE LET trimmed == Trim(raw)
             digits == SelectSeq(trimmed, IsDigit)
         IN  IF trimmed # <<>> /\ Head(trimmed) = "+" THEN trimmed
             ELSE IF Len(digits) = LocalDigits THEN <<"1">> \o digits
             ELSE IF Len(digits) = CountryDigits /\ Head(digits) = "1"
                  THEN <<"+">> \o digits
             ELSE trimmed

\* normalizePhone of review-request.ts (identical in the customers handler).
normalizePhone(raw) ==
    IF raw = <<>> THEN raw
    ELSE LET trimmed == Trim(raw)
             digits == SelectSeq(trimmed, IsDigit)
         IN  IF trimmed # <<>> /\ Head(trimmed) = "+" THEN trimmed
             ELSE IF Len(digits) = LocalDigits THEN <<"+", "1">> \o digits
             ELSE IF Len(digits) = CountryDigits /\ Head(digits) = "1"
                  THEN <<"+">> \o digits
             ELSE trimmed

\* Phones a caller may submit: none, a 10-digit local number, the same number
\* already in canonical form.
PhoneLocal == <<"4", "1", "6", "5", "5", "5", "1", "2", "3", "4">>

PhoneCanonical == <<"+", "1">> \o PhoneLocal

NoPhone == <<>>

PhoneInputs == {NoPhone, PhoneLocal, PhoneCanonical}

\* ------------------------------------------------------------------------
\* Tenants (table `clients`)
\* ------------------------------------------------------------------------

TenantIds == {"acme", "bravo", "solo"}

\* A clientId may be absent from the body (Null), name a tenant, or name none.
ClientIdInputs == TenantIds \cup {Null, "ghost"}

TenantRows ==
    [acme  |-> [id |-> "acme", business_name |-> "Acme",
                booking_link |-> "https://acme.example/book",
                google_review_link |-> "https://g.page/acme",
                owner_email |-> "owner@acme.example",
                twilio_number |-> "+15550001",
                forwarding_phone |-> "+15559001",
                custom_sms_template |-> Null,
                review_sms_template |-> Null,
                auto_review_enabled |-> TRUE],
     bravo |-> [id |-> "bravo", business_name |-> "Bravo",
                booking_link |-> Null,
                google_review_link |-> "https://g.page/bravo",
                owner_email |-> Null,
                twilio_number |-> "+15550002",
                forwarding_phone |-> Null,
                custom_sms_template |-> Null,
                review_sms_template |-> Null,
                auto_review_enabled |-> FALSE],
     solo  |-> [id |-> "solo", business_name |-> Null,
                booking_link |-> Null,
                google_review_link |-> Null,
                owner_email |-> "solo@solo.example",
                twilio_number |-> Null,
                forwarding_phone |-> Null,
                custom_sms_template |-> Null,
                review_sms_template |-> Null,
                auto_review_enabled |-> TRUE]]

NoClient ==
    [id |-> Null, business_name |-> Null, booking_link |-> Null,
     google_review_link |-> Null, owner_email |-> Null, twilio_number |-> Null,
     forwarding_phone |-> Null, custom_sms_template |-> Null,
     review_sms_template |-> Null, auto_review_enabled |-> FALSE]

\* Numbers a telephony webhook may report as the called number.
CalledNumbers == {"+15550001", "+15550002", "+15550009", Null}

\* process.env default sender, used when the tenant has no twilio_number.
TWILIO_FROM_NUMBER == "+15550000"

\* ------------------------------------------------------------------------
\* Accounts
\*
\* An identity of Supabase Auth is its id; the access token of a session is
\* modelled by the id of the identity it belongs to.  A profile row carries
\* the role; a client_users row links a user to a tenant.
\* ------------------------------------------------------------------------

\* Identities at the start: an administrator and a user of tenant acme.
SeedIdentities == {"root", "carol"}

SeedProfiles ==
    {[id |-> "root", role |-> "admin"], [id |-> "carol", role |-> "client"]}

SeedMappings == {[id |-> 0, user_id |-> "carol", client_id |-> "acme"]}

\* The id auth.admin.createUser gives the identity made by invocation r.
NewUserIds == <<"u1", "u2", "u3", "u4">>

\* Authorization header of an admin request: absent, a token no session
\* has, or the token of an identity.
TokenInputs == {Null, "bad", "root", "carol", "u1"}

\* The user a move, update or delete request names.
TargetInputs == {Null, "carol", "u1"}

\* The tenant a user is assigned to.
AssignInputs == {"acme", "bravo"}

\* ------------------------------------------------------------------------
\* State
\* ------------------------------------------------------------------------

VARIABLES
    clients,            \* table clients: tenant id -> row
    leads,              \* table leads, in insertion order
    reviews,            \* table reviews, in insertion order
    customer_contacts,  \* table customer_contacts, in created_at order
    resendClient,       \* TRUE iff RESEND_API_KEY is set (client is not null)
    req,                \* the invocations: request, position, locals, response
    sends,              \* history: every outbound send attempt, in order
    calc,               \* a helper function under check: its input and results
    auth_users,         \* Supabase Auth: the ids of the identities
    profiles,           \* table profiles: rows [id, role], keyed by id
    client_users        \* table client_users: rows [id, user_id, client_id]

vars ==
    <<clients, leads, reviews, customer_contacts, resendClient, req, sends, calc,
      auth_users, profiles, client_users>>

store == <<clients, leads, reviews, customer_contacts>>

accounts == <<auth_users, profiles, client_users>>

\* No helper function is under check: the handlers run.
NoCalc == [fn |-> "none"]

\* No row read or written by the invocation.
NoRow == -1

NoRating == [num |-> FALSE, val |-> 0]

RatingInputs == {NoRating} \cup {[num |-> TRUE, val |-> v] : v \in 0..MaxRating}

\* A field the request body does not carry.
Undefined == "UNDEFINED"

\* The tenant fields of a request body that the model follows.
NoFields == [business_name |-> Undefined, twilio_number |-> Undefined]

\* What the store held about a user when an invocation about it arrived.
NoBefore == [profile |-> FALSE, clients |-> {}]

IdleReq ==
    [kind |-> "none", variant |-> "none", pc |-> "idle",
     clientId |-> Null, phone |-> NoPhone, rating |-> NoRating,
     status |-> Null, To |-> Null, lookup |-> "none",
     client |-> NoClient, primary |-> "none", rowId |-> NoRow, readCount |-> 0,
     resp |-> 0, body |-> "none", link |-> Null, dial |-> Null, action |-> Null,
     update |-> "none", logged |-> FALSE, fields |-> NoFields,
     token |-> Null, userId |-> Null, before |-> NoBefore]

\* res.status(status).json(body) / .send(body): the invocation is over.
Respond(rec, status, body) ==
    [rec EXCEPT !.pc = "done", !.resp = status, !.body = body]

\* Invocations are numbered in the order they arrive.
CanStart(r) ==
    /\ req[r].pc = "idle"
    /\ \A q \in DOMAIN req : q < r => req[q].pc # "idle"

At(r, kind, pc) == req[r].kind = kind /\ req[r].pc = pc

\* supabase .eq('id', clientId).single(): the row, when the query succeeds
\* and exactly one row matches.
ClientById(clientId, queryOk) ==
    IF queryOk /\ clientId \in DOMAIN clients THEN clients[clientId] ELSE NoClient

\* supabase .eq('twilio_number', To).single().
ClientByNumber(number, queryOk) ==
    LET match == {t \in DOMAIN clients :
                    Truthy(number) /\ clients[t].twilio_number = number}
    IN  IF queryOk /\ Cardinality(match) = 1
        THEN clients[CHOOSE t \in match : TRUE] ELSE NoClient

\* How an awaited store call can end: resolved with data, resolved with
\* {error} (the client does not reject on a failed request), or rejected.
StoreOutcomes == {"ok", "error", "threw"}

\* The catch block around a store call runs, and logs, only when the call
\* rejects; an {error} in the result is seen only where the code reads it.
CatchLogs(outcome) == outcome = "threw"

\* twilioClient.messages.create / resendClient.emails.send: one attempt.
Attempt(r, channel, from, to, ok) ==
    [req |-> r, channel |-> channel, from |-> from, to |-> to, ok |-> ok]

\* `client.twilio_number || TWILIO_FROM_NUMBER`.
SenderOf(client) ==
    IF Truthy(client.twilio_number) THEN client.twilio_number ELSE TWILIO_FROM_NUMBER

Init ==
    /\ clients = TenantRows
    /\ leads = <<>>
    /\ reviews = <<>>
    /\ customer_contacts = <<>>
    /\ resendClient \in BOOLEAN
    /\ req = [r \in 1..MaxRequests |-> IdleReq]
    /\ sends = <<>>
    /\ auth_users = SeedIdentities
    /\ profiles = SeedProfiles
    /\ client_users = SeedMappings
    /\ calc = NoCalc

\* ------------------------------------------------------------------------
\* POST /api/leads
\* ------------------------------------------------------------------------

\* The recipient of the new-lead SMS: the phone as submitted.
LeadsSmsTo(phone) == phone

\* Status after the SMS attempt.
LeadsSmsStatus_Fatal(ok) == IF ok THEN 201 ELSE 500

LeadsSmsStatus(ok) == 201

\* What follows the insert of the lead.
LeadsAfterInsert_Unchecked(rec, ok) ==
    IF rec.phone # NoPhone THEN [rec EXCEPT !.pc = "send"]
    ELSE Respond(rec, 201, "lead")

LeadsAfterInsert(rec, ok) ==
    IF ~ok THEN Respond(rec, 500, "error")
    ELSE IF rec.phone # NoPhone THEN [rec EXCEPT !.pc = "send"]
    ELSE Respond(rec, 201, "lead")

\* Validation of the body to the tenant lookup.
LeadsPost(r) ==
    /\ CanStart(r)
    /\ \E clientId \in ClientIdInputs, phone \in PhoneInputs, queryOk \in BOOLEAN :
        LET rec == [req[r] EXCEPT !.kind = "leads", !.clientId = clientId,
                                  !.phone = phone]
            client == ClientById(clientId, queryOk)
        IN  req' = [req EXCEPT ![r] =
                IF ~Truthy(clientId) THEN Respond(rec, 400, "error")
                ELSE IF client = NoClient THEN Respond(rec, 400, "error")
                ELSE [rec EXCEPT !.pc = "insert", !.client = client]]
    /\ UNCHANGED <<store, accounts, resendClient, calc, sends>>

LeadsInsert(r) ==
    /\ At(r, "leads", "insert")
    /\ \E ok \in BOOLEAN :
        /\ leads' = IF ok
                    THEN Append(leads, [id |-> r, client_id |-> req[r].clientId,
                                        phone |-> req[r].phone,
                                        source |-> "website_form"])
                    ELSE leads
        /\ req' = [req EXCEPT ![r] =
                LeadsAfterInsert([req[r] EXCEPT
                                    !.primary = IF ok THEN "ok" ELSE "failed",
                                    !.rowId = IF ok THEN r ELSE NoRow], ok)]
    /\ UNCHANGED <<clients, reviews, customer_contacts, accounts,
                   resendClient, calc, sends>>

LeadsSendSms(r) ==
    /\ At(r, "leads", "send")
    /\ \E ok \in BOOLEAN :
        /\ sends' = Append(sends,
                Attempt(r, "sms", SenderOf(req[r].client),
                        LeadsSmsTo(req[r].phone), ok))
        /\ req' = [req EXCEPT ![r] = Respond(req[r], LeadsSmsStatus(ok), "lead")]
    /\ UNCHANGED <<store, accounts, resendClient, calc>>

\* ------------------------------------------------------------------------
\* POST /api/reviews
\* ------------------------------------------------------------------------

\* `typeof rating !== 'number'`.
IsNumericRating(rating) == rating.num

\* The low-rating owner notification is sent.
OwnerEmailDue_AnyRating(rating, resend, owner_email) ==
    resend /\ Truthy(owner_email)

OwnerEmailDue(rating, resend, owner_email) ==
    rating <= 4 /\ resend /\ Truthy(owner_email)

\* googleReviewLink of the response.
GoogleReviewLinkFor_FourUp(rating, link) ==
    IF rating >= 4 THEN (IF Truthy(link) THEN link ELSE Null) ELSE Null

GoogleReviewLinkFor(rating, link) ==
    IF rating >= 5 THEN (IF Truthy(link) THEN link ELSE Null) ELSE Null

ReviewsCreated(rec) ==
    [Respond(rec, 201, "review") EXCEPT
        !.link = GoogleReviewLinkFor(rec.rating.val, rec.client.google_review_link)]

\* Validation of a public POST body that needs a clientId and more.
ReviewsRejects(clientId, rating) ==
    ~Truthy(clientId) \/ ~IsNumericRating(rating)

ReviewsPost(r) ==
    /\ CanStart(r)
    /\ \E clientId \in ClientIdInputs, rating \in RatingInputs, queryOk \in BOOLEAN :
        LET rec == [req[r] EXCEPT !.kind = "reviews", !.clientId = clientId,
                                  !.rating = rating]
            client == ClientById(clientId, queryOk)
        IN  req' = [req EXCEPT ![r] =
                IF ReviewsRejects(clientId, rating) THEN Respond(rec, 400, "error")
                ELSE IF client = NoClient THEN Respond(rec, 400, "error")
                ELSE [rec EXCEPT !.pc = "insert", !.client = client]]
    /\ UNCHANGED <<store, accounts, resendClient, calc, sends>>

ReviewsInsert(r) ==
    /\ At(r, "reviews", "insert")
    /\ \E ok \in BOOLEAN :
        LET rec == [req[r] EXCEPT !.primary = IF ok THEN "ok" ELSE "failed",
                                  !.rowId = IF ok THEN r ELSE NoRow]
        IN  /\ reviews' = IF ok
                          THEN Append(reviews, [id |-> r, client_id |-> rec.clientId,
                                                rating |-> rec.rating.val])
                          ELSE reviews
            /\ req' = [req EXCEPT ![r] =
                    IF ~ok THEN Respond(rec, 500, "error")
                    ELSE IF OwnerEmailDue(rec.rating.val, resendClient,
                                          rec.client.owner_email)
                         THEN [rec EXCEPT !.pc = "send"]
                    ELSE ReviewsCreated(rec)]
    /\ UNCHANGED <<clients, leads, customer_contacts, accounts,
                   resendClient, calc, sends>>

ReviewsSendEmail(r) ==
    /\ At(r, "reviews", "send")
    /\ \E ok \in BOOLEAN :
        /\ sends' = Append(sends,
                Attempt(r, "email", "reviews@sitrixx.app",
                        <<req[r].client.owner_email>>, ok))
        /\ req' = [req EXCEPT ![r] = ReviewsCreated(req[r])]
    /\ UNCHANGED <<store, accounts, resendClient, calc>>

\* ------------------------------------------------------------------------
\* customer_contacts rows and the review-request counter
\* ------------------------------------------------------------------------

\* .update({last_review_request_at: now, review_request_count: n}).eq('id', id)
BumpCounter(table, id, count, now) ==
    [i \in DOMAIN table |->
        IF table[i].id = id
        THEN [table[i] EXCEPT !.review_request_count = count,
                              !.last_review_request_at = now]
        ELSE table[i]]

\* Variant: the counter is raised by two.
NextCount_Two(readCount) == readCount + 2

\* (row.review_request_count || 0) + 1, from the count the invocation read.
NextCount(readCount) == readCount + 1

\* ------------------------------------------------------------------------
\* POST /api/customers (customers.ts: "plain"; the later version that
\* normalizes the recipient and renders the template: "normalizing")
\* ------------------------------------------------------------------------

CustomersVariants == {"plain", "normalizing"}

\* `!clientId || !phone`, shared by customers and review-request.
MissingClientOrPhone_ClientOnly(clientId, phone) == ~Truthy(clientId)

MissingClientOrPhone(clientId, phone) ==
    ~Truthy(clientId) \/ phone = NoPhone

\* Variant: the flag alone decides, whether or not there is a review link.
AutoReviewDue_FlagOnly(client) == client.auto_review_enabled

\* `client.auto_review_enabled && client.google_review_link`.
AutoReviewDue(client) ==
    client.auto_review_enabled /\ Truthy(client.google_review_link)

CustomersPost(r) ==
    /\ CanStart(r)
    /\ \E variant \in CustomersVariants, clientId \in ClientIdInputs,
          phone \in PhoneInputs, queryOk \in BOOLEAN :
        LET rec == [req[r] EXCEPT !.kind = "customers", !.variant = variant,
                                  !.clientId = clientId, !.phone = phone]
            client == ClientById(clientId, queryOk)
        IN  req' = [req EXCEPT ![r] =
                IF MissingClientOrPhone(clientId, phone) THEN Respond(rec, 400, "error")
                ELSE IF client = NoClient THEN Respond(rec, 400, "error")
                ELSE [rec EXCEPT !.pc = "insert", !.client = client]]
    /\ UNCHANGED <<store, accounts, resendClient, calc, sends>>

CustomersInsert(r) ==
    /\ At(r, "customers", "insert")
    /\ \E ok \in BOOLEAN :
        LET rec == [req[r] EXCEPT !.primary = IF ok THEN "ok" ELSE "failed",
                                  !.rowId = IF ok THEN r ELSE NoRow,
                                  !.readCount = 0]
        IN  /\ customer_contacts' =
                    IF ok
                    THEN Append(customer_contacts,
                                [id |-> r, client_id |-> rec.clientId,
                                 phone |-> rec.phone, review_request_count |-> 0,
                                 last_review_request_at |-> 0])
                    ELSE customer_contacts
            /\ req' = [req EXCEPT ![r] =
                    IF ~ok THEN Respond(rec, 500, "error")
                    ELSE IF AutoReviewDue(rec.client) THEN [rec EXCEPT !.pc = "send"]
                    ELSE Respond(rec, 201, "customer")]
    /\ UNCHANGED <<clients, leads, reviews, accounts,
                   resendClient, calc, sends>>

\* The send and the counter update share one try block: a rejected send skips
\* the update, and either failure is only logged.
CustomersSendSms(r) ==
    /\ At(r, "customers", "send")
    /\ \E ok \in BOOLEAN :
        /\ sends' = Append(sends,
                Attempt(r, "sms", SenderOf(req[r].client),
                        IF req[r].variant = "normalizing"
                        THEN normalizePhone(req[r].phone) ELSE req[r].phone, ok))
        /\ req' = [req EXCEPT ![r] =
                IF ok THEN [req[r] EXCEPT !.pc = "update"]
                ELSE Respond([req[r] EXCEPT !.logged = TRUE], 201, "customer")]
    /\ UNCHANGED <<store, accounts, resendClient, calc>>

\* The result of the update is not read: only a rejection reaches the catch.
CustomersUpdateCounter(r) ==
    /\ At(r, "customers", "update")
    /\ \E outcome \in StoreOutcomes :
        /\ customer_contacts' =
                IF outcome = "ok"
                THEN BumpCounter(customer_contacts, req[r].rowId,
                                 NextCount(req[r].readCount), r)
                ELSE customer_contacts
        /\ req' = [req EXCEPT ![r] =
                Respond([req[r] EXCEPT !.update = outcome,
                                       !.logged = CatchLogs(outcome)],
                        201, "customer")]
    /\ UNCHANGED <<clients, leads, reviews, accounts,
                   resendClient, calc, sends>>

\* ------------------------------------------------------------------------
\* POST /api/review-request (the handler that normalizes the recipient and
\* bumps the counter: "counting"; the earlier one: "simple")
\* ------------------------------------------------------------------------

ReviewRequestVariants == {"counting", "simple"}

\* Outcome of a rejected send: the outer catch answers 500.
ReviewRequestSendFailed_Swallowed(rec) ==
    Respond(rec, 200, "sent")

\* Variant: a rejected send is tried again.
ReviewRequestSendFailed_Retry(rec) ==
    [rec EXCEPT !.pc = "send"]

ReviewRequestSendFailed(rec) ==
    Respond(rec, 500, "error")

\* Variant: the oldest matching contact (ascending order).
LatestContact_Oldest(clientId, phone) ==
    LET match == {i \in DOMAIN customer_contacts :
                    /\ customer_contacts[i].client_id = clientId
                    /\ customer_contacts[i].phone = phone}
    IN  IF match = {} THEN 0 ELSE CHOOSE i \in match : \A j \in match : i <= j

\* The most recently created contact of the tenant with the phone as entered:
\* .eq('client_id').eq('phone').order('created_at', desc).limit(1).maybeSingle()
LatestContact(clientId, phone) ==
    LET match == {i \in DOMAIN customer_contacts :
                    /\ customer_contacts[i].client_id = clientId
                    /\ customer_contacts[i].phone = phone}
    IN  IF match = {} THEN 0 ELSE CHOOSE i \in match : \A j \in match : j <= i

ReviewRequestPost(r) ==
    /\ CanStart(r)
    /\ \E variant \in ReviewRequestVariants, clientId \in ClientIdInputs,
          phone \in PhoneInputs, queryOk \in BOOLEAN :
        LET rec == [req[r] EXCEPT !.kind = "review-request", !.variant = variant,
                                  !.clientId = clientId, !.phone = phone]
            client == ClientById(clientId, queryOk)
        IN  req' = [req EXCEPT ![r] =
                IF MissingClientOrPhone(clientId, phone) THEN Respond(rec, 400, "error")
                ELSE IF client = NoClient THEN Respond(rec, 400, "error")
                ELSE IF ~Truthy(client.google_review_link)
                     THEN Respond(rec, 400, "error")
                ELSE [rec EXCEPT !.pc = "send", !.client = client]]
    /\ UNCHANGED <<store, accounts, resendClient, calc, sends>>

ReviewRequestSendSms(r) ==
    /\ At(r, "review-request", "send")
    /\ \E ok \in BOOLEAN :
        /\ sends' = Append(sends,
                Attempt(r, "sms", SenderOf(req[r].client),
                        IF req[r].variant = "counting"
                        THEN normalizePhone(req[r].phone) ELSE req[r].phone, ok))
        /\ req' = [req EXCEPT ![r] =
                IF ~ok THEN ReviewRequestSendFailed([req[r] EXCEPT !.logged = TRUE])
                ELSE IF req[r].variant = "counting" THEN [req[r] EXCEPT !.pc = "find"]
                ELSE Respond(req[r], 200, "sent")]
    /\ UNCHANGED <<store, accounts, resendClient, calc>>

\* Only `data` of the lookup is read: an {error} leaves it null and the
\* update is skipped in silence; a rejection is caught and logged.
ReviewRequestFindCustomer(r) ==
    /\ At(r, "review-request", "find")
    /\ \E outcome \in StoreOutcomes :
        LET i == LatestContact(req[r].clientId, req[r].phone)
            rec == [req[r] EXCEPT !.lookup = outcome,
                                  !.logged = CatchLogs(outcome)]
        IN  req' = [req EXCEPT ![r] =
                IF outcome = "ok" /\ i # 0
                THEN [rec EXCEPT !.pc = "update",
                                 !.rowId = customer_contacts[i].id,
                                 !.readCount = customer_contacts[i].review_request_count]
                ELSE Respond(rec, 200, "sent")]
    /\ UNCHANGED <<store, accounts, resendClient, calc, sends>>

ReviewRequestUpdateCounter(r) ==
    /\ At(r, "review-request", "update")
    /\ \E outcome \in StoreOutcomes :
        /\ customer_contacts' =
                IF outcome = "ok"
                THEN BumpCounter(customer_contacts, req[r].rowId,
                                 NextCount(req[r].readCount), r)
                ELSE customer_contacts
        /\ req' = [req EXCEPT ![r] =
                Respond([req[r] EXCEPT !.update = outcome,
                                       !.logged = CatchLogs(outcome)],
                        200, "sent")]
    /\ UNCHANGED <<clients, leads, reviews, accounts,
                   resendClient, calc, sends>>

\* ------------------------------------------------------------------------
\* POST /api/twilio-call-status (the handler that acts on missed calls only:
\* "strict"; the one that acts on any callback with both endpoints:
\* "permissive")
\* ------------------------------------------------------------------------

CallStatusVariants == {"strict", "permissive"}

MissedStatuses == {"no-answer", "busy", "failed"}

\* DialCallStatus || CallStatus as reported by the telephony provider.
CallStatusInputs == MissedStatuses \cup {"completed", Null}

\* The callback is answered without acting on it.
CallStatusIgnores(variant, status, from, to) ==
    IF variant = "strict"
    THEN ~Truthy(status) \/ status \notin MissedStatuses
    ELSE from = NoPhone \/ ~Truthy(to)

CallStatusIgnoredBody(variant) ==
    IF variant = "strict" THEN "No action needed" ELSE "Missing data"

CallStatus(r) ==
    /\ CanStart(r)
    /\ \E variant \in CallStatusVariants, status \in CallStatusInputs,
          from \in {NoPhone, PhoneLocal}, to \in CalledNumbers, queryOk \in BOOLEAN :
        LET rec == [req[r] EXCEPT !.kind = "call-status", !.variant = variant,
                                  !.status = status, !.phone = from, !.To = to]
            client == ClientByNumber(to, queryOk)
        IN  req' = [req EXCEPT ![r] =
                IF CallStatusIgnores(variant, status, from, to)
                THEN Respond(rec, 200, CallStatusIgnoredBody(variant))
                ELSE IF client = NoClient THEN Respond(rec, 200, "Client not found")
                ELSE [rec EXCEPT !.pc = "insert", !.client = client]]
    /\ UNCHANGED <<store, accounts, resendClient, calc, sends>>

\* The insert's result is not inspected: the handler goes on to the SMS
\* whether or not the lead was written.
CallStatusInsertLead(r) ==
    /\ At(r, "call-status", "insert")
    /\ \E ok \in BOOLEAN :
        /\ leads' = IF ok
                    THEN Append(leads, [id |-> r, client_id |-> req[r].client.id,
                                        phone |-> req[r].phone,
                                        source |-> "missed_call"])
                    ELSE leads
        /\ req' = [req EXCEPT ![r] =
                [req[r] EXCEPT !.pc = "send",
                               !.primary = IF ok THEN "ok" ELSE "failed",
                               !.rowId = IF ok THEN r ELSE NoRow]]
    /\ UNCHANGED <<clients, reviews, customer_contacts, accounts,
                   resendClient, calc, sends>>

CallStatusSendSms(r) ==
    /\ At(r, "call-status", "send")
    /\ \E ok \in BOOLEAN :
        /\ sends' = Append(sends,
                Attempt(r, "sms", req[r].client.twilio_number, req[r].phone, ok))
        /\ req' = [req EXCEPT ![r] = Respond(req[r], 200, "OK")]
    /\ UNCHANGED <<store, accounts, resendClient, calc>>

\* ------------------------------------------------------------------------
\* POST /api/twilio-voice
\* ------------------------------------------------------------------------

statusCallbackUrl == "https://sitrixx-website-backend.vercel.app/api/twilio-call-status"

\* The TwiML document of the response: <Hangup/> or <Dial action=...>.
TwilioVoiceTwiml_DialAlways(rec, client) ==
    [Respond(rec, 200, "twiml") EXCEPT
        !.dial = client.forwarding_phone, !.action = statusCallbackUrl]

TwilioVoiceTwiml(rec, client) ==
    IF client = NoClient THEN [Respond(rec, 200, "twiml") EXCEPT !.dial = "Hangup"]
    ELSE IF ~Truthy(client.forwarding_phone)
         THEN [Respond(rec, 200, "twiml") EXCEPT !.dial = "Hangup"]
    ELSE [Respond(rec, 200, "twiml") EXCEPT
            !.dial = client.forwarding_phone, !.action = statusCallbackUrl]

TwilioVoice(r) ==
    /\ CanStart(r)
    /\ \E from \in {NoPhone, PhoneLocal}, to \in CalledNumbers, queryOk \in BOOLEAN :
        LET rec == [req[r] EXCEPT !.kind = "voice", !.phone = from, !.To = to,
                                  !.lookup = IF queryOk THEN "ok" ELSE "error"]
        IN  req' = [req EXCEPT ![r] = TwilioVoiceTwiml(rec, ClientByNumber(to, queryOk))]
    /\ UNCHANGED <<store, accounts, resendClient, calc, sends>>

\* ------------------------------------------------------------------------
\* POST /api/contact: the website form mailed to the owner of the site.
\* The handler has no store access; the email is its only operation.
\* ------------------------------------------------------------------------

CLIENT_EMAILS ==
    [sitrixx |-> "sitrixx1@gmail.com", moizkhan |-> "moizkhan_007@hotmail.com"]

\* `req.query.client || "sitrixx"`: a key of CLIENT_EMAILS or not.
ClientKeyInputs == {"sitrixx", "ghost"}

Contact(r) ==
    /\ CanStart(r)
    /\ \E clientKey \in ClientKeyInputs, complete \in BOOLEAN, ok \in BOOLEAN :
        LET rec == [req[r] EXCEPT !.kind = "contact", !.clientId = clientKey]
            rejected == clientKey \notin DOMAIN CLIENT_EMAILS \/ ~complete
        IN  /\ sends' =
                    IF rejected THEN sends
                    ELSE Append(sends, Attempt(r, "email", "leads@sitrixx.com",
                                               CLIENT_EMAILS[clientKey], ok))
            /\ req' = [req EXCEPT ![r] =
                    IF rejected THEN Respond(rec, 400, "error")
                    ELSE IF ok THEN Respond(rec, 200, "ok")
                    ELSE Respond(rec, 500, "error")]
    /\ UNCHANGED <<store, accounts, resendClient, calc>>

Next ==
    \/ \E r \in DOMAIN req : LeadsPost(r)
    \/ \E r \in DOMAIN req : LeadsInsert(r)
    \/ \E r \in DOMAIN req : LeadsSendSms(r)
    \/ \E r \in DOMAIN req : ReviewsPost(r)
    \/ \E r \in DOMAIN req : ReviewsInsert(r)
    \/ \E r \in DOMAIN req : ReviewsSendEmail(r)
    \/ \E r \in DOMAIN req : CustomersPost(r)
    \/ \E r \in DOMAIN req : CustomersInsert(r)
    \/ \E r \in DOMAIN req : CustomersSendSms(r)
    \/ \E r \in DOMAIN req : CustomersUpdateCounter(r)
    \/ \E r \in DOMAIN req : ReviewRequestPost(r)
    \/ \E r \in DOMAIN req : ReviewRequestSendSms(r)
    \/ \E r \in DOMAIN req : ReviewRequestFindCustomer(r)
    \/ \E r \in DOMAIN req : ReviewRequestUpdateCounter(r)
    \/ \E r \in DOMAIN req : CallStatus(r)
    \/ \E r \in DOMAIN req : CallStatusInsertLead(r)
    \/ \E r \in DOMAIN req : CallStatusSendSms(r)
    \/ \E r \in DOMAIN req : TwilioVoice(r)
    \/ \E r \in DOMAIN req : Contact(r)

Spec == Init /\ [][Next]_vars

\* ------------------------------------------------------------------------
\* Review requests racing on one contact: the callers of these behaviours
\* only send review requests and customer creations for one tenant and one
\* phone, to a store that already holds a contact with that phone.
\* ------------------------------------------------------------------------

SeedContact ==
    [id |-> 0, client_id |-> "acme", phone |-> PhoneLocal,
     review_request_count |-> 0, last_review_request_at |-> 0]

InitRace ==
    /\ clients = TenantRows
    /\ leads = <<>>
    /\ reviews = <<>>
    /\ customer_contacts = <<SeedContact>>
    /\ resendClient = TRUE
    /\ req = [r \in 1..MaxRaceRequests |-> IdleReq]
    /\ sends = <<>>
    /\ auth_users = SeedIdentities
    /\ profiles = SeedProfiles
    /\ client_users = SeedMappings
    /\ calc = NoCalc

RaceCallers ==
    \A r \in DOMAIN req :
        /\ req[r].clientId \in {Null, "acme"}
        /\ req[r].phone \in {NoPhone, PhoneLocal}
        /\ req[r].variant \in {"none", "counting", "normalizing"}

NextRace ==
    \/ \E r \in DOMAIN req : CustomersPost(r) /\ RaceCallers'
    \/ \E r \in DOMAIN req : CustomersInsert(r)
    \/ \E r \in DOMAIN req : CustomersSendSms(r)
    \/ \E r \in DOMAIN req : CustomersUpdateCounter(r)
    \/ \E r \in DOMAIN req : ReviewRequestPost(r) /\ RaceCallers'
    \/ \E r \in DOMAIN req : ReviewRequestSendSms(r)
    \/ \E r \in DOMAIN req : ReviewRequestFindCustomer(r)
    \/ \E r \in DOMAIN req : ReviewRequestUpdateCounter(r)

SpecRace == InitRace /\ [][NextRace]_vars

\* ------------------------------------------------------------------------
\* /api/clients: tenant create (POST) and update (PUT, PATCH)
\*
\* The table is keyed by id: an insert under an id that is taken fails.  A
\* row carries every column; the model follows business_name and
\* twilio_number through the request and leaves the other columns of a new
\* row empty.
\* ------------------------------------------------------------------------

\* Ids a created tenant may get: sent by the caller or drawn by randomUUID.
NewTenantIds == {"delta", "echo", "foxtrot"}

\* `id` of a create body: absent, new, or already taken.
CreateIdInputs == {Null, "delta", "acme"}

\* twilio_number of a create body: absent, the number of tenant acme, a new one.
CreateNumberInputs == {Null, "+15550001", "+15550003"}

\* `id` of an update body.
UpdateIdInputs == {Null, "acme", "bravo", "ghost"}

\* The allowed fields of an update body that are present in it.
UpdateInputs ==
    [business_name : {Undefined, "Zed"},
     twilio_number : {Undefined, Null, "+15550001", "+15550003"}]

\* The row inserted by POST /api/clients.
NewClientRow(id, fields) ==
    [NoClient EXCEPT !.id = id,
                     !.business_name = fields.business_name,
                     !.twilio_number = fields.twilio_number]

\* .update(updates): the columns present in updates are overwritten.
ApplyUpdates(row, updates) ==
    [row EXCEPT
        !.business_name =
            IF updates.business_name # Undefined THEN updates.business_name ELSE @,
        !.twilio_number =
            IF updates.twilio_number # Undefined THEN updates.twilio_number ELSE @]

\* POST /api/clients up to the insert: business_name is required, the id
\* is the one sent or a fresh one.
ClientsPost(r) ==
    /\ CanStart(r)
    /\ \E maybeId \in CreateIdInputs, business_name \in {Null, "Delta"},
          twilio_number \in CreateNumberInputs,
          uuid \in NewTenantIds \ DOMAIN clients :
        LET id == IF Truthy(maybeId) THEN maybeId ELSE uuid
            rec == [req[r] EXCEPT !.kind = "clients-post",
                                  !.fields = [business_name |-> business_name,
                                              twilio_number |-> twilio_number]]
        IN  req' = [req EXCEPT ![r] =
                IF ~Truthy(business_name) THEN Respond(rec, 400, "error")
                ELSE [rec EXCEPT !.pc = "insert", !.clientId = id]]
    /\ UNCHANGED <<store, accounts, resendClient, calc, sends>>

\* .insert({...}).select().single(): no field is compared with the rows
\* the table already holds.
ClientsInsert(r) ==
    /\ At(r, "clients-post", "insert")
    /\ \E ok \in BOOLEAN :
        LET id == req[r].clientId
            accepted == ok /\ id \notin DOMAIN clients
        IN  /\ clients' =
                    IF accepted
                    THEN [t \in DOMAIN clients \cup {id} |->
                            IF t = id THEN NewClientRow(id, req[r].fields)
                            ELSE clients[t]]
                    ELSE clients
            /\ req' = [req EXCEPT ![r] =
                    IF accepted
                    THEN Respond([req[r] EXCEPT !.primary = "ok"], 201, "client")
                    ELSE Respond([req[r] EXCEPT !.primary = "failed"], 500, "error")]
    /\ UNCHANGED <<leads, reviews, customer_contacts, accounts,
                   resendClient, calc, sends>>

\* PUT or PATCH /api/clients up to the update: id and at least one allowed
\* field are required.
ClientsPut(r) ==
    /\ CanStart(r)
    /\ \E id \in UpdateIdInputs, updates \in UpdateInputs :
        LET rec == [req[r] EXCEPT !.kind = "clients-put", !.clientId = id,
                                  !.fields = updates]
        IN  req' = [req EXCEPT ![r] =
                IF ~Truthy(id) THEN Respond(rec, 400, "error")
                ELSE IF updates = NoFields THEN Respond(rec, 400, "error")
                ELSE [rec EXCEPT !.pc = "update"]]
    /\ UNCHANGED <<store, accounts, resendClient, calc, sends>>

\* .update(updates).eq('id', id).select().single(): an error when no row
\* has the id.
ClientsUpdate(r) ==
    /\ At(r, "clients-put", "update")
    /\ \E ok \in BOOLEAN :
        LET id == req[r].clientId
            applied == ok /\ id \in DOMAIN clients
        IN  /\ clients' =
                    IF applied
                    THEN [clients EXCEPT ![id] = ApplyUpdates(@, req[r].fields)]
                    ELSE clients
            /\ req' = [req EXCEPT ![r] =
                    IF applied
                    THEN Respond([req[r] EXCEPT !.primary = "ok"], 200, "client")
                    ELSE Respond([req[r] EXCEPT !.primary = "failed"], 500, "error")]
    /\ UNCHANGED <<leads, reviews, customer_contacts, accounts,
                   resendClient, calc, sends>>

InitTenants ==
    /\ clients = TenantRows
    /\ leads = <<>>
    /\ reviews = <<>>
    /\ customer_contacts = <<>>
    /\ resendClient = TRUE
    /\ req = [r \in 1..MaxTenantRequests |-> IdleReq]
    /\ sends = <<>>
    /\ auth_users = SeedIdentities
    /\ profiles = SeedProfiles
    /\ client_users = SeedMappings
    /\ calc = NoCalc

\* Tenant administration, and the calls routed by the numbers it sets.
NextTenants ==
    \/ \E r \in DOMAIN req : ClientsPost(r)
    \/ \E r \in DOMAIN req : ClientsInsert(r)
    \/ \E r \in DOMAIN req : ClientsPut(r)
    \/ \E r \in DOMAIN req : ClientsUpdate(r)
    \/ \E r \in DOMAIN req : TwilioVoice(r)

SpecTenants == InitTenants /\ [][NextTenants]_vars

\* ------------------------------------------------------------------------
\* normalizePhone on its own
\*
\* The function is applied to raw strings drawn from PhoneStrings and then
\* applied again to its own result.  The strings are built so that every
\* branch is taken: leading and trailing affixes of spaces, '+' and '-',
\* around a run of 0..MaxDigits digits that starts with 1 or not and may be
\* split by a separator.
\* ------------------------------------------------------------------------

\* Characters of the affixes around the digits.
AffixChars == {" ", "+", "-"}

\* All sequences over chars of length at most n.
RECURSIVE SeqsUpTo(_, _)
SeqsUpTo(chars, n) ==
    IF n = 0 THEN {<<>>}
    ELSE LET shorter == SeqsUpTo(chars, n - 1)
         IN  shorter \cup {Append(s, c) : s \in shorter, c \in chars}

\* The digit that follows d on a keypad walk, so that runs are not uniform.
NextDigit(d) ==
    CASE d = "0" -> "1" [] d = "1" -> "2" [] d = "2" -> "3" [] d = "3" -> "4"
      [] d = "4" -> "5" [] d = "5" -> "6" [] d = "6" -> "7" [] d = "7" -> "8"
      [] d = "8" -> "9" [] OTHER -> "0"

RECURSIVE DigitRun(_, _)
DigitRun(first, n) ==
    IF n = 0 THEN <<>> ELSE <<first>> \o DigitRun(NextDigit(first), n - 1)

\* A digit run with a separator after its area code, as in 416-555 1234.
Separated(run, sep) ==
    IF Len(run) > AreaCodeLen
    THEN SubSeq(run, 1, AreaCodeLen) \o sep \o SubSeq(run, AreaCodeLen + 1, Len(run))
    ELSE run

PhoneStrings ==
    {pre \o Separated(DigitRun(first, n), sep) \o post :
        pre \in SeqsUpTo(AffixChars, MaxAffix),
        post \in SeqsUpTo(AffixChars, MaxAffix),
        first \in {"1", "4"},
        n \in 0..MaxDigits,
        sep \in {<<>>, <<"-">>, <<" ">>}}

InitPhone ==
    /\ clients = TenantRows
    /\ leads = <<>>
    /\ reviews = <<>>
    /\ customer_contacts = <<>>
    /\ resendClient = TRUE
    /\ req = [r \in 1..MaxRequests |-> IdleReq]
    /\ sends = <<>>
    /\ auth_users = SeedIdentities
    /\ profiles = SeedProfiles
    /\ client_users = SeedMappings
    /\ \E raw \in PhoneStrings :
          calc = [fn |-> "normalizePhone", pc |-> "raw", raw |-> raw,
                  once |-> <<>>, twice |-> <<>>]

\* const to = normalizePhone(phone)
PhoneNormalize ==
    /\ calc.pc = "raw"
    /\ calc' = [calc EXCEPT !.pc = "once", !.once = normalizePhone(calc.raw)]
    /\ UNCHANGED <<store, accounts, resendClient, req, sends>>

\* The result submitted again, as a stored phone is on a later request.
PhoneNormalizeAgain ==
    /\ calc.pc = "once"
    /\ calc' = [calc EXCEPT !.pc = "twice", !.twice = normalizePhone(calc.once)]
    /\ UNCHANGED <<store, accounts, resendClient, req, sends>>

NextPhone ==
    \/ PhoneNormalize
    \/ PhoneNormalizeAgain

SpecPhone == InitPhone /\ [][NextPhone]_vars

\* ------------------------------------------------------------------------
\* SMS bodies
\*
\* A text is a sequence of tokens: the braces "{" and "}" one by one, and
\* the pieces of text between them whole.  A placeholder {{name}} is the
\* five tokens { { name } }, and {name} is three, so that a pattern matches
\* in the model exactly where it matches in the string.  The empty text
\* stands for '', null and undefined, all falsy in the source.
\* ------------------------------------------------------------------------

Present(text) == text # <<>>

\* `text || fallback`
OrElse(text, fallback) == IF Present(text) THEN text ELSE fallback

Double(word) == <<"{", "{", word, "}", "}">>

Single(word) == <<"{", word, "}">>

StartsWith(text, pattern) ==
    Len(text) >= Len(pattern) /\ SubSeq(text, 1, Len(pattern)) = pattern

\* text.replace(/pattern/g, value): every match, left to right; the value
\* put in is not scanned again by the same call.
RECURSIVE ReplaceAll(_, _, _)
ReplaceAll(text, pattern, value) ==
    IF text = <<>> THEN <<>>
    ELSE IF StartsWith(text, pattern)
         THEN value \o ReplaceAll(SubSeq(text, Len(pattern) + 1, Len(text)),
                                  pattern, value)
    ELSE <<Head(text)>> \o ReplaceAll(Tail(text), pattern, value)

\* text.replace('pattern', value) with a string pattern: the first match only.
RECURSIVE ReplaceFirst(_, _, _)
ReplaceFirst(text, pattern, value) ==
    IF text = <<>> THEN <<>>
    ELSE IF StartsWith(text, pattern)
         THEN value \o SubSeq(text, Len(pattern) + 1, Len(text))
    ELSE <<Head(text)>> \o ReplaceFirst(Tail(text), pattern, value)

DEFAULT_REVIEW_TEMPLATE ==
    <<"Hi ">> \o Double("name") \o <<", thanks for choosing ">>
        \o Double("business_name")
        \o <<"! It would mean a lot if you could leave us a quick review here: ">>
        \o Double("review_link")

\* Variant: a missing name is rendered as nothing.
ReviewNameFallback_Empty == <<>>

\* `name || 'there'` of the review handlers.
ReviewNameFallback == <<"there">>

\* `client.business_name || 'our business'` of the review handlers.
ReviewBizName(client) == OrElse(client.business_name, <<"our business">>)

\* `client.business_name || 'our team'` of the leads and call handlers.
TeamBizName(client) == OrElse(client.business_name, <<"our team">>)

\* The three chained replace calls of the review handlers.
RenderReview(rawTemplate, name, bizName, reviewLink) ==
    ReplaceAll(
        ReplaceAll(
            ReplaceAll(rawTemplate, Double("name"), OrElse(name, ReviewNameFallback)),
            Double("business_name"), bizName),
        Double("review_link"), reviewLink)

\* POST /api/review-request: template of the tenant, or the default.
ReviewRequestSmsBody(client, name) ==
    RenderReview(OrElse(client.review_sms_template, DEFAULT_REVIEW_TEMPLATE),
                 name, ReviewBizName(client), client.google_review_link)

\* The fixed review text of customers.ts and of the second review-request
\* handler.
FixedReviewSmsBody(client, name) ==
    <<"Hey ">> \o OrElse(name, ReviewNameFallback)
        \o <<", thanks for choosing ">> \o ReviewBizName(client)
        \o <<"! We'd really appreciate a quick Google review: ">>
        \o client.google_review_link

\* POST /api/review-request, second handler of the file.
ReviewRequestSimpleSmsBody(client, name) == FixedReviewSmsBody(client, name)

\* POST /api/customers (customers.ts): the fixed text, whatever the
\* tenant's review template.
CustomersSmsBody(client, name) == FixedReviewSmsBody(client, name)

\* POST /api/customers, later version: template of the tenant, or the default.
CustomersTemplatedSmsBody(client, name) ==
    RenderReview(OrElse(client.review_sms_template, DEFAULT_REVIEW_TEMPLATE),
                 name, ReviewBizName(client), client.google_review_link)

DEFAULT_LEAD_TEMPLATE ==
    <<"Hey ">> \o Single("name") \o <<", thanks for contacting ">>
        \o Single("business") \o <<". You can book here: ">> \o Single("booking")

\* POST /api/leads: three replace calls with string patterns.
LeadsSmsBody(client, name) ==
    ReplaceFirst(
        ReplaceFirst(
            ReplaceFirst(OrElse(client.custom_sms_template, DEFAULT_LEAD_TEMPLATE),
                         Single("name"), name),
            Single("business"), TeamBizName(client)),
        Single("booking"), client.booking_link)

\* POST /api/leads as first written inside clients.ts.
LeadsEarlierSmsBody(client, name) ==
    <<"Hey">> \o (IF Present(name) THEN <<" ">> \o name ELSE <<>>)
        \o <<", thanks for reaching out to ">> \o TeamBizName(client) \o <<".">>
        \o (IF Present(client.booking_link)
            THEN <<" You can book a time here: ">> \o client.booking_link
            ELSE <<" We'll get back to you shortly.">>)

\* POST /api/twilio-call-status: the text sent back to a missed caller.
CallStatusSmsBody(client) ==
    <<"Sorry we missed your call at ">> \o TeamBizName(client) \o <<".">>
        \o (IF Present(client.booking_link)
            THEN <<" You can book a time here: ">> \o client.booking_link
            ELSE <<" Reply to this text and we'll get back to you soon.">>)

\* ------------------------------------------------------------------------
\* The SMS bodies on their own
\*
\* One tenant configuration and one customer name are drawn, and every
\* handler that would send for them builds its body, in any order.
\* ------------------------------------------------------------------------

\* Customer names: none, a plain one, and two that are themselves
\* placeholder text, '{{review_link}}' and '{business}'.
NameInputs == {<<>>, <<"Sam">>, Double("review_link"), Single("business")}

\* Business names: none, a plain one, and one holding '{{review_link}}'.
BusinessNames == {<<>>, <<"Acme">>, <<"Acme ">> \o Double("review_link")}

BookingLinks == {<<>>, <<"https://acme.example/book">>}

ReviewLinks == {<<>>, <<"https://g.page/acme">>}

\* 'Hi {{name}}'
HiNameTemplate == <<"Hi ">> \o Double("name")

\* Tenant review templates: none, one placeholder, every placeholder with
\* {{name}} twice.
ReviewTemplates ==
    {<<>>,
     HiNameTemplate,
     Double("name") \o <<", rate ">> \o Double("business_name") \o <<" at ">>
        \o Double("review_link") \o <<". Thanks ">> \o Double("name")}

\* 'Hi {name}'
HiNameLeadTemplate == <<"Hi ">> \o Single("name")

\* Tenant lead templates: none, one placeholder, every placeholder with
\* {name} twice.
CustomTemplates ==
    {<<>>,
     HiNameLeadTemplate,
     Single("name") \o <<", this is ">> \o Single("business") \o <<": ">>
        \o Single("booking") \o <<". Bye ">> \o Single("name")}

RenderClients ==
    [business_name : BusinessNames,
     booking_link : BookingLinks,
     google_review_link : ReviewLinks,
     custom_sms_template : CustomTemplates,
     review_sms_template : ReviewTemplates,
     auto_review_enabled : BOOLEAN]

BodyHandlers ==
    {"review-request", "review-request-simple", "customers",
     "customers-templated", "leads", "leads-earlier", "call-status"}

InitRender ==
    /\ clients = TenantRows
    /\ leads = <<>>
    /\ reviews = <<>>
    /\ customer_contacts = <<>>
    /\ resendClient = TRUE
    /\ req = [r \in 1..MaxRequests |-> IdleReq]
    /\ sends = <<>>
    /\ auth_users = SeedIdentities
    /\ profiles = SeedProfiles
    /\ client_users = SeedMappings
    /\ \E client \in RenderClients, name \in NameInputs :
          calc = [fn |-> "smsBody", client |-> client, name |-> name,
                  built |-> {}, body |-> [h \in BodyHandlers |-> <<>>]]

\* The handler builds its smsBody for the tenant and name of calc.
BuildBody(handler, smsBody) ==
    /\ calc.fn = "smsBody"
    /\ handler \notin calc.built
    /\ calc' = [calc EXCEPT !.built = @ \cup {handler}, !.body[handler] = smsBody]
    /\ UNCHANGED <<store, accounts, resendClient, req, sends>>

ReviewRequestBuildBody ==
    /\ Present(calc.client.google_review_link)
    /\ BuildBody("review-request", ReviewRequestSmsBody(calc.client, calc.name))

ReviewRequestSimpleBuildBody ==
    /\ Present(calc.client.google_review_link)
    /\ BuildBody("review-request-simple",
                 ReviewRequestSimpleSmsBody(calc.client, calc.name))

CustomersBuildBody ==
    /\ calc.client.auto_review_enabled
    /\ Present(calc.client.google_review_link)
    /\ BuildBody("customers", CustomersSmsBody(calc.client, calc.name))

CustomersTemplatedBuildBody ==
    /\ calc.client.auto_review_enabled
    /\ Present(calc.client.google_review_link)
    /\ BuildBody("customers-templated",
                 CustomersTemplatedSmsBody(calc.client, calc.name))

LeadsBuildBody ==
    BuildBody("leads", LeadsSmsBody(calc.client, calc.name))

LeadsEarlierBuildBody ==
    BuildBody("leads-earlier", LeadsEarlierSmsBody(calc.client, calc.name))

CallStatusBuildBody ==
    BuildBody("call-status", CallStatusSmsBody(calc.client))

NextRender ==
    \/ ReviewRequestBuildBody
    \/ ReviewRequestSimpleBuildBody
    \/ CustomersBuildBody
    \/ CustomersTemplatedBuildBody
    \/ LeadsBuildBody
    \/ LeadsEarlierBuildBody
    \/ CallStatusBuildBody

SpecRender == InitRender /\ [][NextRender]_vars

\* ------------------------------------------------------------------------
\* Admin handlers: the gate
\*
\* Every admin handler first reads the bearer token, asks Supabase Auth
\* for its identity, reads that identity's profile and checks the role.
\* Each await is one step.
\* ------------------------------------------------------------------------

AdminKinds == {"create-user", "move-user", "delete-user", "clients-delete"}

CreateUserVariants == {"cleanup", "rollback", "warning"}

MoveUserVariants == {"move", "patch"}

DeleteUserVariants == {"checked", "unchecked"}

ProfileOf(userId) == {p \in profiles : p.id = userId}

MappingsOf(userId) == {m \in client_users : m.user_id = userId}

\* What the store holds about the user now.
Snapshot(userId) ==
    [profile |-> ProfileOf(userId) # {},
     clients |-> {m.client_id : m \in MappingsOf(userId)}]

\* The handler's promise rejects: it writes no response.
Throw(rec) == [rec EXCEPT !.pc = "done", !.resp = 0, !.body = "thrown"]

\* Variant: any profile passes the role check.
IsAdmin_Any(rows) == rows # {}

\* `profile.role !== 'admin'` is false.
IsAdmin(rows) == \E p \in rows : p.role = "admin"

\* The handler up to auth.getUser: a request without a token ends here.
AdminArrive(rec) ==
    IF ~Truthy(rec.token) THEN Respond(rec, 401, "error")
    ELSE [rec EXCEPT !.pc = "getUser"]

\* Status of the answer when the profile read gives an error or no row:
\* the handlers that test the error alone answer 500, the others 403.
NoProfileStatus(rec) ==
    IF \/ rec.kind = "clients-delete"
       \/ rec.kind = "create-user" /\ rec.variant = "cleanup"
       \/ rec.kind = "delete-user" /\ rec.variant = "unchecked"
    THEN 500 ELSE 403

\* The handler between the gate and its first store call: the checks of
\* the request body.
AdminEnter(rec) ==
    CASE rec.kind = "create-user" -> [rec EXCEPT !.pc = "createUser"]
      [] rec.kind = "move-user" ->
            IF ~Truthy(rec.userId) THEN Respond(rec, 400, "error")
            ELSE IF rec.variant = "patch" THEN [rec EXCEPT !.pc = "updateProfile"]
            ELSE [rec EXCEPT !.pc = "unmap"]
      [] rec.kind = "delete-user" ->
            IF ~Truthy(rec.userId) THEN Respond(rec, 400, "error")
            ELSE [rec EXCEPT !.pc = "deleteMappings"]
      [] OTHER ->
            IF ~Truthy(rec.clientId) THEN Respond(rec, 400, "error")
            ELSE [rec EXCEPT !.pc = "deleteClientUsers"]

\* supabaseAdmin.auth.getUser(token).
AdminGetUser(r) ==
    /\ req[r].kind \in AdminKinds
    /\ req[r].pc = "getUser"
    /\ req' = [req EXCEPT ![r] =
            IF req[r].token \in auth_users THEN [req[r] EXCEPT !.pc = "getProfile"]
            ELSE Respond(req[r], 401, "error")]
    /\ UNCHANGED <<store, accounts, resendClient, calc, sends>>

\* profiles .eq('id', callerId).single(), then the role check and the
\* checks of the body.
AdminGetProfile(r) ==
    /\ req[r].kind \in AdminKinds
    /\ req[r].pc = "getProfile"
    /\ req' = [req EXCEPT ![r] =
            IF ProfileOf(req[r].token) = {}
            THEN Respond(req[r], NoProfileStatus(req[r]), "error")
            ELSE IF ~IsAdmin(ProfileOf(req[r].token))
            THEN Respond(req[r], 403, "error")
            ELSE AdminEnter(req[r])]
    /\ UNCHANGED <<store, accounts, resendClient, calc, sends>>

\* ------------------------------------------------------------------------
\* Admin: create user
\*
\* Variants: "cleanup" deletes the identity in a try/catch when the profile
\* insert fails, "rollback" deletes it without one, "warning" answers ok
\* with a warning and deletes nothing.
\* ------------------------------------------------------------------------

CreatedStatus(rec) == IF rec.variant = "cleanup" THEN 201 ELSE 200

CreateUserPost(r) ==
    /\ CanStart(r)
    /\ \E variant \in CreateUserVariants, token \in TokenInputs,
          clientId \in {Null} \cup AssignInputs :
        req' = [req EXCEPT ![r] =
            AdminArrive([req[r] EXCEPT !.kind = "create-user", !.variant = variant,
                                       !.token = token, !.clientId = clientId])]
    /\ UNCHANGED <<store, accounts, resendClient, calc, sends>>

\* auth.admin.createUser.
CreateUserAuth(r) ==
    /\ At(r, "create-user", "createUser")
    /\ \E ok \in BOOLEAN :
        /\ auth_users' = IF ok THEN auth_users \cup {NewUserIds[r]} ELSE auth_users
        /\ req' = [req EXCEPT ![r] =
                IF ok THEN [req[r] EXCEPT !.pc = "profile", !.userId = NewUserIds[r]]
                ELSE Respond(req[r], 500, "error")]
    /\ UNCHANGED <<store, profiles, client_users, resendClient, calc, sends>>

\* The profile insert or upsert, and what follows its failure.
CreateUserProfile(r) ==
    /\ At(r, "create-user", "profile")
    /\ \E ok \in BOOLEAN :
        LET id == req[r].userId
        IN  /\ profiles' =
                    IF ok THEN (profiles \ ProfileOf(id))
                                    \cup {[id |-> id, role |-> "client"]}
                    ELSE profiles
            /\ req' = [req EXCEPT ![r] =
                    LET rec == [req[r] EXCEPT !.primary = IF ok THEN "ok" ELSE "failed"]
                    IN  IF ~ok
                        THEN IF rec.variant = "warning"
                             THEN Respond(rec, 200, "warning")
                             ELSE [rec EXCEPT !.pc = "cleanup"]
                        ELSE IF ~Truthy(rec.clientId)
                        THEN Respond(rec, CreatedStatus(rec), "user")
                        ELSE IF rec.variant = "warning"
                        THEN [rec EXCEPT !.pc = "unmap"]
                        ELSE [rec EXCEPT !.pc = "map"]]
    /\ UNCHANGED <<store, auth_users, client_users, resendClient, calc, sends>>

\* auth.admin.deleteUser(newUserId) after a failed profile write.  Its
\* result is not read; a rejection is caught and logged by "cleanup" and
\* leaves the handler of "rollback".
CreateUserCleanup(r) ==
    /\ At(r, "create-user", "cleanup")
    /\ \E outcome \in StoreOutcomes :
        /\ auth_users' = IF outcome = "ok" THEN auth_users \ {req[r].userId}
                         ELSE auth_users
        /\ req' = [req EXCEPT ![r] =
                LET rec == [req[r] EXCEPT !.update = outcome,
                                !.logged = (CatchLogs(outcome)
                                                /\ req[r].variant = "cleanup")]
                IN  IF outcome = "threw" /\ req[r].variant = "rollback"
                    THEN Throw(rec)
                    ELSE Respond(rec, 500, "error")]
    /\ UNCHANGED <<store, profiles, client_users, resendClient, calc, sends>>

\* ------------------------------------------------------------------------
\* Admin: assign a user to a tenant
\*
\* "move" is the action moveUserToClient, "patch" the PATCH of a user with
\* a client_id.  Both delete the user's mappings and insert the new one;
\* the create handler "warning" does the same for the user it made, the
\* other create handlers insert only.
\* ------------------------------------------------------------------------

MoveUserPost(r) ==
    /\ CanStart(r)
    /\ \E variant \in MoveUserVariants, token \in TokenInputs,
          userId \in TargetInputs, clientId \in AssignInputs :
        req' = [req EXCEPT ![r] =
            AdminArrive([req[r] EXCEPT !.kind = "move-user", !.variant = variant,
                                       !.token = token, !.userId = userId,
                                       !.clientId = clientId,
                                       !.before = Snapshot(userId)])]
    /\ UNCHANGED <<store, accounts, resendClient, calc, sends>>

\* PATCH: profiles.update(update).eq('id', userId); the body names no role.
PatchUpdateProfile(r) ==
    /\ At(r, "move-user", "updateProfile")
    /\ \E ok \in BOOLEAN :
        req' = [req EXCEPT ![r] =
            IF ok THEN [req[r] EXCEPT !.pc = "unmap"]
            ELSE Respond(req[r], 500, "error")]
    /\ UNCHANGED <<store, accounts, resendClient, calc, sends>>

\* client_users.delete().eq('user_id', userId): the result is not read.
ClientUsersDelete(r) ==
    /\ req[r].kind \in {"create-user", "move-user"}
    /\ req[r].pc = "unmap"
    /\ \E ok \in BOOLEAN :
        client_users' = IF ok THEN client_users \ MappingsOf(req[r].userId)
                        ELSE client_users
    /\ req' = [req EXCEPT ![r].pc = "map"]
    /\ UNCHANGED <<store, auth_users, profiles, resendClient, calc, sends>>

\* client_users.insert({user_id, client_id}).
ClientUsersInsert(r) ==
    /\ req[r].kind \in {"create-user", "move-user"}
    /\ req[r].pc = "map"
    /\ \E ok \in BOOLEAN :
        /\ client_users' =
                IF ok THEN client_users \cup {[id |-> r, user_id |-> req[r].userId,
                                               client_id |-> req[r].clientId]}
                ELSE client_users
        /\ req' = [req EXCEPT ![r] =
                IF req[r].kind = "create-user"
                THEN Respond(req[r], CreatedStatus(req[r]),
                             IF ok THEN "user" ELSE "warning")
                ELSE LET rec == [req[r] EXCEPT
                                    !.primary = IF ok THEN "ok" ELSE "failed"]
                     IN  IF ok THEN Respond(rec, 200, "ok")
                         ELSE Respond(rec, 500, "error")]
    /\ UNCHANGED <<store, auth_users, profiles, resendClient, calc, sends>>

\* ------------------------------------------------------------------------
\* Admin: delete user
\*
\* Mappings, profile and identity are deleted in this order.  "checked"
\* reads the result of the last delete, "unchecked" reads none.
\* ------------------------------------------------------------------------

DeleteUserPost(r) ==
    /\ CanStart(r)
    /\ \E variant \in DeleteUserVariants, token \in TokenInputs,
          userId \in TargetInputs :
        req' = [req EXCEPT ![r] =
            AdminArrive([req[r] EXCEPT !.kind = "delete-user", !.variant = variant,
                                       !.token = token, !.userId = userId,
                                       !.before = Snapshot(userId)])]
    /\ UNCHANGED <<store, accounts, resendClient, calc, sends>>

DeleteUserMappings(r) ==
    /\ At(r, "delete-user", "deleteMappings")
    /\ \E ok \in BOOLEAN :
        client_users' = IF ok THEN client_users \ MappingsOf(req[r].userId)
                        ELSE client_users
    /\ req' = [req EXCEPT ![r].pc = "deleteProfile"]
    /\ UNCHANGED <<store, auth_users, profiles, resendClient, calc, sends>>

DeleteUserProfile(r) ==
    /\ At(r, "delete-user", "deleteProfile")
    /\ \E ok \in BOOLEAN :
        profiles' = IF ok THEN profiles \ ProfileOf(req[r].userId) ELSE profiles
    /\ req' = [req EXCEPT ![r].pc = "deleteUser"]
    /\ UNCHANGED <<store, auth_users, client_users, resendClient, calc, sends>>

\* auth.admin.deleteUser(userId).
DeleteUserAuth(r) ==
    /\ At(r, "delete-user", "deleteUser")
    /\ \E ok \in BOOLEAN :
        /\ auth_users' = IF ok THEN auth_users \ {req[r].userId} ELSE auth_users
        /\ req' = [req EXCEPT ![r] =
                LET rec == [req[r] EXCEPT !.primary = IF ok THEN "ok" ELSE "failed"]
                IN  IF ok \/ req[r].variant = "unchecked"
                    THEN Respond(rec, 200, "ok")
                    ELSE Respond(rec, 500, "error")]
    /\ UNCHANGED <<store, profiles, client_users, resendClient, calc, sends>>

\* ------------------------------------------------------------------------
\* Admin: delete tenant
\*
\* The rows that reference the tenant are deleted table by table, their
\* results unread, and then the tenant row.  `update` keeps whether one
\* of the unread results was an error.
\* ------------------------------------------------------------------------

\* Tenant ids of a delete body.
DeleteIdInputs == {Null, "acme", "bravo"}

\* The rows of a table that do not reference the tenant.
Without(table, clientId) ==
    SelectSeq(table, LAMBDA row : row.client_id # clientId)

ClientsDelete(r) ==
    /\ CanStart(r)
    /\ \E token \in TokenInputs, id \in DeleteIdInputs :
        req' = [req EXCEPT ![r] =
            AdminArrive([req[r] EXCEPT !.kind = "clients-delete",
                                       !.token = token, !.clientId = id])]
    /\ UNCHANGED <<store, accounts, resendClient, calc, sends>>

ClientsDeleteUsers(r) ==
    /\ At(r, "clients-delete", "deleteClientUsers")
    /\ \E ok \in BOOLEAN :
        /\ client_users' =
               IF ok THEN {m \in client_users : m.client_id # req[r].clientId}
               ELSE client_users
        /\ req' = [req EXCEPT ![r] =
                [req[r] EXCEPT !.pc = "deleteContacts",
                               !.update = IF ok THEN @ ELSE "error"]]
    /\ UNCHANGED <<store, auth_users, profiles, resendClient, calc, sends>>

ClientsDeleteContacts(r) ==
    /\ At(r, "clients-delete", "deleteContacts")
    /\ \E ok \in BOOLEAN :
        /\ customer_contacts' =
               IF ok THEN Without(customer_contacts, req[r].clientId)
               ELSE customer_contacts
        /\ req' = [req EXCEPT ![r] =
                [req[r] EXCEPT !.pc = "deleteLeads",
                               !.update = IF ok THEN @ ELSE "error"]]
    /\ UNCHANGED <<clients, leads, reviews, accounts,
                   resendClient, calc, sends>>

ClientsDeleteLeads(r) ==
    /\ At(r, "clients-delete", "deleteLeads")
    /\ \E ok \in BOOLEAN :
        /\ leads' = IF ok THEN Without(leads, req[r].clientId) ELSE leads
        /\ req' = [req EXCEPT ![r] =
                [req[r] EXCEPT !.pc = "deleteReviews",
                               !.update = IF ok THEN @ ELSE "error"]]
    /\ UNCHANGED <<clients, reviews, customer_contacts, accounts, resendClient,
                   calc, sends>>

ClientsDeleteReviews(r) ==
    /\ At(r, "clients-delete", "deleteReviews")
    /\ \E ok \in BOOLEAN :
        /\ reviews' = IF ok THEN Without(reviews, req[r].clientId) ELSE reviews
        /\ req' = [req EXCEPT ![r] =
                [req[r] EXCEPT !.pc = "deleteClient",
                               !.update = IF ok THEN @ ELSE "error"]]
    /\ UNCHANGED <<clients, leads, customer_contacts, accounts, resendClient,
                   calc, sends>>

\* clients.delete().eq('id', id): the one result that is read.
ClientsDeleteRow(r) ==
    /\ At(r, "clients-delete", "deleteClient")
    /\ \E ok \in BOOLEAN :
        /\ clients' =
               IF ok THEN [t \in DOMAIN clients \ {req[r].clientId} |-> clients[t]]
               ELSE clients
        /\ req' = [req EXCEPT ![r] =
                LET rec == [req[r] EXCEPT !.primary = IF ok THEN "ok" ELSE "failed"]
                IN  IF ok THEN Respond(rec, 200, "ok")
                    ELSE Respond(rec, 500, "error")]
    /\ UNCHANGED <<leads, reviews, customer_contacts, accounts, resendClient,
                   calc, sends>>

\* ------------------------------------------------------------------------
\* The admin handlers together
\* ------------------------------------------------------------------------

InitAdmin ==
    /\ clients = TenantRows
    /\ leads = <<>>
    /\ reviews = <<>>
    /\ customer_contacts = <<>>
    /\ resendClient = TRUE
    /\ req = [r \in 1..MaxAdminRequests |-> IdleReq]
    /\ sends = <<>>
    /\ calc = NoCalc
    /\ auth_users = SeedIdentities
    /\ profiles = SeedProfiles
    /\ client_users = SeedMappings

NextAdmin ==
    \/ \E r \in DOMAIN req : AdminGetUser(r)
    \/ \E r \in DOMAIN req : AdminGetProfile(r)
    \/ \E r \in DOMAIN req : CreateUserPost(r)
    \/ \E r \in DOMAIN req : CreateUserAuth(r)
    \/ \E r \in DOMAIN req : CreateUserProfile(r)
    \/ \E r \in DOMAIN req : CreateUserCleanup(r)
    \/ \E r \in DOMAIN req : MoveUserPost(r)
    \/ \E r \in DOMAIN req : PatchUpdateProfile(r)
    \/ \E r \in DOMAIN req : ClientUsersDelete(r)
    \/ \E r \in DOMAIN req : ClientUsersInsert(r)
    \/ \E r \in DOMAIN req : DeleteUserPost(r)
    \/ \E r \in DOMAIN req : DeleteUserMappings(r)
    \/ \E r \in DOMAIN req : DeleteUserProfile(r)
    \/ \E r \in DOMAIN req : DeleteUserAuth(r)
    \/ \E r \in DOMAIN req : ClientsDelete(r)
    \/ \E r \in DOMAIN req : ClientsDeleteUsers(r)
    \/ \E r \in DOMAIN req : ClientsDeleteContacts(r)
    \/ \E r \in DOMAIN req : ClientsDeleteLeads(r)
    \/ \E r \in DOMAIN req : ClientsDeleteReviews(r)
    \/ \E r \in DOMAIN req : ClientsDeleteRow(r)

SpecAdmin == InitAdmin /\ [][NextAdmin]_vars

\* ------------------------------------------------------------------------
\* Tenant delete against the public forms
\*
\* An administrator deletes tenant acme while leads, reviews and customers
\* are posted for it.
\* ------------------------------------------------------------------------

InitCascade ==
    /\ clients = TenantRows
    /\ leads = <<>>
    /\ reviews = <<>>
    /\ customer_contacts = <<>>
    /\ resendClient = TRUE
    /\ req = [r \in 1..MaxCascadeRequests |-> IdleReq]
    /\ sends = <<>>
    /\ calc = NoCalc
    /\ auth_users = SeedIdentities
    /\ profiles = SeedProfiles
    /\ client_users = SeedMappings

CascadeCallers ==
    \A r \in DOMAIN req :
        /\ req[r].clientId \in {Null, "acme"}
        /\ req[r].phone \in {NoPhone, PhoneLocal}
        /\ req[r].rating \in {NoRating, [num |-> TRUE, val |-> 2]}
        /\ req[r].variant \in {"none", "plain"}
        /\ req[r].token \in {Null, "root"}
        /\ req[r].kind = "clients-delete" => req[r].token = "root"

NextCascade ==
    \/ \E r \in DOMAIN req : ClientsDelete(r) /\ CascadeCallers'
    \/ \E r \in DOMAIN req : AdminGetUser(r)
    \/ \E r \in DOMAIN req : AdminGetProfile(r)
    \/ \E r \in DOMAIN req : ClientsDeleteUsers(r)
    \/ \E r \in DOMAIN req : ClientsDeleteContacts(r)
    \/ \E r \in DOMAIN req : ClientsDeleteLeads(r)
    \/ \E r \in DOMAIN req : ClientsDeleteReviews(r)
    \/ \E r \in DOMAIN req : ClientsDeleteRow(r)
    \/ \E r \in DOMAIN req : LeadsPost(r) /\ CascadeCallers'
    \/ \E r \in DOMAIN req : LeadsInsert(r)
    \/ \E r \in DOMAIN req : LeadsSendSms(r)
    \/ \E r \in DOMAIN req : ReviewsPost(r) /\ CascadeCallers'
    \/ \E r \in DOMAIN req : ReviewsInsert(r)
    \/ \E r \in DOMAIN req : ReviewsSendEmail(r)
    \/ \E r \in DOMAIN req : CustomersPost(r) /\ CascadeCallers'
    \/ \E r \in DOMAIN req : CustomersInsert(r)
    \/ \E r \in DOMAIN req : CustomersSendSms(r)
    \/ \E r \in DOMAIN req : CustomersUpdateCounter(r)

SpecCascade == InitCascade /\ [][NextCascade]_vars

\* ------------------------------------------------------------------------
\* Properties
\* ------------------------------------------------------------------------

Reqs == DOMAIN req

Started(r) == req[r].pc # "idle"

Done(r) == req[r].pc = "done"

\* The send attempts of invocation r.
SendsOf(r) == {i \in DOMAIN sends : sends[i].req = r}

FailedSend(r) == \E i \in SendsOf(r) : ~sends[i].ok

\* The table an invocation of this kind writes its primary record to.
PrimaryTable(kind) ==
    CASE kind = "leads" -> leads
      [] kind = "call-status" -> leads
      [] kind = "reviews" -> reviews
      [] kind = "customers" -> customer_contacts
      [] OTHER -> <<>>

\* The primary record written by invocation r is in the store.
PrimaryStored(r) ==
    \E i \in DOMAIN PrimaryTable(req[r].kind) : PrimaryTable(req[r].kind)[i].id = r

\* The record a successful response of this kind carries.
RecordOf(kind) ==
    CASE kind = "leads" -> "lead"
      [] kind = "reviews" -> "review"
      [] kind = "customers" -> "customer"
      [] OTHER -> "none"

\* C1: in POST /api/leads, /api/reviews and /api/customers a failed outbound
\* send still ends in a 201 response carrying the created record, and the
\* record written by that invocation is in the store.
C1_SendFailureKeepsRecord ==
    \A r \in Reqs :
        (req[r].kind \in {"leads", "reviews", "customers"} /\ FailedSend(r))
            => /\ Done(r)
               /\ req[r].resp = 201
               /\ req[r].body = RecordOf(req[r].kind)
               /\ req[r].rowId = r
               /\ PrimaryStored(r)

C1_Witness ==
    \E r \in Reqs :
        /\ req[r].kind \in {"leads", "customers"}
        /\ FailedSend(r)
        /\ req[r].resp = 201
        /\ PrimaryStored(r)

C3_SendOnlyAfterPrimaryWritten ==
    \A i \in DOMAIN sends :
        req[sends[i].req].kind \in {"leads", "reviews", "customers", "call-status"}
            => req[sends[i].req].primary = "ok"

\* C3 amended: in the leads, reviews and customers handlers a send is
\* attempted only after the invocation's primary record was written; in the
\* call-status webhook it is attempted after the insert of the missed-call
\* lead was attempted, whether or not that insert succeeded.
C3_SendAfterPrimaryAttempt ==
    \A i \in DOMAIN sends :
        LET r == sends[i].req
        IN  /\ req[r].kind \in {"leads", "reviews", "customers"}
                => req[r].primary = "ok" /\ PrimaryStored(r)
            /\ req[r].kind = "call-status"
                => /\ req[r].primary \in {"ok", "failed"}
                   /\ req[r].primary = "ok" <=> PrimaryStored(r)

C3_Witness ==
    \E i, j \in DOMAIN sends :
        /\ req[sends[i].req].kind = "leads"
        /\ req[sends[i].req].primary = "ok"
        /\ req[sends[j].req].kind = "call-status"
        /\ req[sends[j].req].primary = "failed"

\* C4: every contact's review_request_count is >= 0 and never decreases from
\* one state to the next, under any interleaving of manual review requests
\* and auto-review sends for that contact.
C4_CounterNeverDecreases ==
    [][\A i \in DOMAIN customer_contacts, j \in DOMAIN customer_contacts' :
            customer_contacts[i].id = customer_contacts'[j].id
                => /\ customer_contacts'[j].review_request_count >= 0
                   /\ customer_contacts'[j].review_request_count
                        >= customer_contacts[i].review_request_count]_vars

\* A contact whose counter was bumped by two overlapping invocations.
C4_Witness ==
    \E i \in DOMAIN customer_contacts :
        /\ customer_contacts[i].review_request_count = 2
        /\ \E r \in Reqs : At(r, "review-request", "update")
                            /\ req[r].rowId = customer_contacts[i].id
                            /\ req[r].readCount = 0

\* C5 as stated: the response of POST /api/reviews carries a review link
\* only for a rating of exactly 5; for every other rating it is null.
C5_LinkOnlyForExactlyFive ==
    \A r \in Reqs :
        (req[r].kind = "reviews" /\ req[r].resp = 201 /\ req[r].rating.val # 5)
            => req[r].link = Null

\* C5 amended: the response carries the tenant's review link exactly when
\* the rating is at least 5 (5 and every rating above 5); for every rating
\* below 5 the link is null.
C5_LinkIffAtLeastFive ==
    \A r \in Reqs :
        (req[r].kind = "reviews" /\ req[r].resp = 201)
            => /\ req[r].rating.val < 5 => req[r].link = Null
               /\ req[r].rating.val >= 5
                    => req[r].link = clients[req[r].clientId].google_review_link

C5_Witness ==
    \E r \in Reqs :
        /\ req[r].kind = "reviews"
        /\ req[r].resp = 201
        /\ req[r].rating.val > 5
        /\ req[r].link # Null

\* The owner-notification emails attempted by invocation r.
EmailsOf(r) == {i \in SendsOf(r) : sends[i].channel = "email"}

\* C6 as stated: for a stored review, rating 5 gives a non-null link and no
\* owner email; rating <= 4 gives a null link and, when the tenant has an
\* owner email, exactly one owner-notification attempt.
C6_ReviewRouting ==
    \A r \in Reqs :
        (req[r].kind = "reviews" /\ req[r].resp = 201)
            => /\ req[r].rating.val = 5
                    => req[r].link # Null /\ SendsOf(r) = {}
               /\ req[r].rating.val <= 4
                    => /\ req[r].link = Null
                       /\ Truthy(clients[req[r].clientId].owner_email)
                            => Cardinality(EmailsOf(r)) = 1

\* C6 amended: rating 5 gives the tenant's configured review link (null when
\* the tenant has none) and no owner email; rating <= 4 gives a null link
\* and exactly one owner-notification attempt when the tenant has an owner
\* email and the email client is configured, none otherwise.
C6_ReviewRoutingConfigured ==
    \A r \in Reqs :
        (req[r].kind = "reviews" /\ req[r].resp = 201)
            => /\ PrimaryStored(r)
               /\ req[r].rating.val = 5
                    => /\ req[r].link = clients[req[r].clientId].google_review_link
                       /\ SendsOf(r) = {}
               /\ req[r].rating.val <= 4
                    => /\ req[r].link = Null
                       /\ SendsOf(r) = EmailsOf(r)
                       /\ Cardinality(EmailsOf(r)) =
                            IF Truthy(clients[req[r].clientId].owner_email)
                               /\ resendClient
                            THEN 1 ELSE 0

C6_Witness ==
    \E r \in Reqs :
        /\ req[r].kind = "reviews"
        /\ req[r].resp = 201
        /\ req[r].rating.val = 4
        /\ Cardinality(EmailsOf(r)) = 1

\* The request fails input validation, judged from the request and the
\* tenants alone.
InvalidInput(rec) ==
    \/ ~Truthy(rec.clientId)
    \/ rec.kind \in {"customers", "review-request"} /\ rec.phone = NoPhone
    \/ rec.kind = "reviews" /\ ~rec.rating.num
    \/ rec.clientId \notin DOMAIN clients
    \/ /\ rec.kind = "review-request"
       /\ rec.clientId \in DOMAIN clients
       /\ ~Truthy(clients[rec.clientId].google_review_link)

\* Invocation r wrote nothing to the store and attempted no send.
NoEffects(r) ==
    /\ SendsOf(r) = {}
    /\ \A i \in DOMAIN leads : leads[i].id # r
    /\ \A i \in DOMAIN reviews : reviews[i].id # r
    /\ \A i \in DOMAIN customer_contacts :
        /\ customer_contacts[i].id # r
        /\ customer_contacts[i].last_review_request_at # r

\* C7: a public request rejected for input validation is answered with 400
\* and performs no store write and no outbound send.
C7_RejectedInputHasNoEffects ==
    \A r \in Reqs :
        /\ (/\ req[r].kind \in {"leads", "reviews", "customers", "review-request"}
            /\ InvalidInput(req[r]))
                => Done(r) /\ req[r].resp = 400 /\ NoEffects(r)
        /\ req[r].resp = 400 => NoEffects(r)

C7_Witness ==
    \E r, q \in Reqs :
        /\ req[r].kind = "review-request"
        /\ req[r].clientId = "solo"
        /\ req[r].phone # NoPhone
        /\ req[r].resp = 400
        /\ req[q].kind = "reviews"
        /\ ~req[q].rating.num
        /\ req[q].resp = 400

\* C8: the call-status webhook writes a missed_call lead and sends an SMS
\* only when the reported status is no-answer, busy or failed.
C8_ActsOnlyOnMissedCalls ==
    \A r \in Reqs :
        (req[r].kind = "call-status" /\ (PrimaryStored(r) \/ SendsOf(r) # {}))
            => req[r].status \in MissedStatuses

\* A missed call (no-answer) acted on by the strict handler.
C8_Witness ==
    \E r \in Reqs :
        /\ req[r].kind = "call-status"
        /\ req[r].variant = "strict"
        /\ req[r].status = "no-answer"
        /\ PrimaryStored(r)
        /\ SendsOf(r) # {}

\* The tenants whose inbound number is the called number.
TenantsCalled(to) ==
    {t \in DOMAIN clients : Truthy(to) /\ clients[t].twilio_number = to}

C10_LeadSmsToCanonicalPhone ==
    \A i \in DOMAIN sends :
        req[sends[i].req].kind = "leads"
            => sends[i].to = normalizePhone(req[sends[i].req].phone)

\* A lead posted with a canonical phone: the SMS goes to that phone.
C10_Witness ==
    \E i \in DOMAIN sends :
        /\ req[sends[i].req].kind = "leads"
        /\ req[sends[i].req].phone = PhoneCanonical
        /\ sends[i].to = PhoneCanonical

\* ------------------------------------------------------------------------
\* normalizePhone (specification SpecPhone)
\* ------------------------------------------------------------------------

\* C11: normalizePhone is idempotent: applying it to its own result returns
\* that result, for every raw string (empty, spaces only, '+'-prefixed,
\* malformed, 10 or 11 digits with or without separators).
C11_NormalizePhoneIdempotent ==
    (calc.fn = "normalizePhone" /\ calc.pc = "twice") => calc.twice = calc.once

\* C11 witness: a padded 10-digit number with a separator was rewritten to
\* +1 and its digits, and the result was normalized again.
C11_Witness ==
    /\ calc.fn = "normalizePhone"
    /\ calc.pc = "twice"
    /\ calc.raw # calc.once
    /\ Head(calc.raw) = " "
    /\ Len(SelectSeq(calc.raw, IsDigit)) = LocalDigits
    /\ Len(calc.raw) > LocalDigits + 1
    /\ calc.once = <<"+", "1">> \o SelectSeq(calc.raw, IsDigit)

\* The reference of C12, written from its wording: the input between its
\* first and last non-space character, and the digits of the whole input.
RefTrimmed(x) ==
    LET kept == {i \in 1..Len(x) : x[i] # " "}
    IN  IF kept = {} THEN <<>>
        ELSE SubSeq(x, CHOOSE i \in kept : \A j \in kept : i <= j,
                       CHOOSE i \in kept : \A j \in kept : i >= j)

RECURSIVE RefDigits(_, _)
RefDigits(x, k) ==
    IF k = 0 THEN <<>>
    ELSE IF x[k] \in Digits THEN Append(RefDigits(x, k - 1), x[k])
    ELSE RefDigits(x, k - 1)

RefNormalized(x) ==
    LET t == RefTrimmed(x)
        d == RefDigits(x, Len(x))
    IN  CASE Len(x) = 0 -> x
          [] Len(x) > 0 /\ Len(t) > 0 /\ t[1] = "+" -> t
          [] Len(x) > 0 /\ ~(Len(t) > 0 /\ t[1] = "+") /\ Len(d) = 10 ->
                <<"+", "1">> \o d
          [] Len(x) > 0 /\ ~(Len(t) > 0 /\ t[1] = "+") /\ Len(d) = 11 /\ d[1] = "1" ->
                <<"+">> \o d
          [] OTHER -> t

\* C12: normalizePhone returns what the reference returns on every raw
\* string: the empty input unchanged, a trimmed '+'-prefixed input as is,
\* +1 and the digits for 10 digits, + and the digits for 11 digits starting
\* with 1, and the trimmed input otherwise.
C12_NormalizePhoneMatchesReference ==
    (calc.fn = "normalizePhone" /\ calc.pc # "raw") =>
        calc.once = RefNormalized(calc.raw)

\* C12 witness: an 11-digit number that does not start with 1, surrounded
\* by spaces, came back trimmed and otherwise unchanged.
C12_Witness ==
    /\ calc.fn = "normalizePhone"
    /\ calc.pc = "once"
    /\ Len(SelectSeq(calc.raw, IsDigit)) = CountryDigits
    /\ Head(SelectSeq(calc.raw, IsDigit)) = "4"
    /\ Head(calc.raw) = " "
    /\ calc.raw[Len(calc.raw)] = " "
    /\ calc.once = SubSeq(calc.raw, 2, Len(calc.raw) - 1)

\* ------------------------------------------------------------------------
\* SMS bodies (specification SpecRender)
\* ------------------------------------------------------------------------

Built(handler) == calc.fn = "smsBody" /\ handler \in calc.built

\* C13: the manual review request and the auto-review on customer creation
\* choose the body the same way, so for the same tenant and name they have
\* built the same body.
C13_ReviewBodiesAgree ==
    (Built("review-request") /\ Built("customers")) =>
        calc.body["customers"] = calc.body["review-request"]

\* C13 witness: a tenant with its own review template, for which both
\* handlers built a body, and the bodies differ.
C13_Witness ==
    /\ Built("review-request")
    /\ Built("customers")
    /\ calc.client.review_sms_template = HiNameTemplate
    /\ calc.name = <<"Sam">>
    /\ calc.body["review-request"] = <<"Hi ", "Sam">>
    /\ calc.body["customers"][1] = "Hey "

\* The handlers that render a tenant review template.
ReviewTemplateHandlers == {"review-request", "customers-templated"}

Tokens(text) == {text[i] : i \in DOMAIN text}

MissedCallOpening == "Sorry we missed your call at "

BookingReferences == {". You can book here: ", " You can book a time here: "}

GenericFollowUps ==
    {" We'll get back to you shortly.",
     " Reply to this text and we'll get back to you soon."}

\* C15: the missed-call body is the tenant's custom template when one is
\* set (so it is not the built-in text); otherwise it is the 'Sorry we
\* missed your call' text followed by the booking link when there is one
\* and by the generic follow-up phrase when there is none.
C15_MissedCallBody ==
    Built("call-status") =>
        LET body == calc.body["call-status"]
            client == calc.client
        IN  IF Present(client.custom_sms_template)
            THEN body[1] # MissedCallOpening
            ELSE /\ body[1] = MissedCallOpening
                 /\ IF Present(client.booking_link)
                    THEN /\ Tokens(client.booking_link) \subseteq Tokens(body)
                         /\ Tokens(body) \cap GenericFollowUps = {}
                    ELSE body[Len(body)] \in GenericFollowUps

\* C15 witness: a tenant with a custom template and no booking link got the
\* built-in text with the generic follow-up.
C15_Witness ==
    /\ Built("call-status")
    /\ calc.client.custom_sms_template = HiNameLeadTemplate
    /\ ~Present(calc.client.booking_link)
    /\ calc.body["call-status"][1] = MissedCallOpening
    /\ calc.body["call-status"][Len(calc.body["call-status"])] \in GenericFollowUps

\* C16: without a custom template the new-lead body contains the booking
\* link when the tenant has one, and the generic we'll-get-back-to-you
\* phrase with no reference to booking when it has none.
C16_DefaultLeadBody ==
    \A h \in {"leads", "leads-earlier"} :
        (Built(h) /\ ~Present(calc.client.custom_sms_template)) =>
            LET body == calc.body[h]
            IN  IF Present(calc.client.booking_link)
                THEN Tokens(calc.client.booking_link) \subseteq Tokens(body)
                ELSE /\ Tokens(body) \cap GenericFollowUps # {}
                     /\ Tokens(body) \cap BookingReferences = {}

\* C16 witness: POST /api/leads for a tenant with neither template nor
\* booking link ends its body with the booking sentence and nothing after.
C16_Witness ==
    /\ Built("leads")
    /\ ~Present(calc.client.custom_sms_template)
    /\ ~Present(calc.client.booking_link)
    /\ calc.body["leads"][Len(calc.body["leads"])] = ". You can book here: "

\* ------------------------------------------------------------------------
\* Auto-review and counters (specifications Spec and SpecRace)
\* ------------------------------------------------------------------------

\* The tenant has auto-review switched on and a review link to send.
AutoReviewConfigured(clientId) ==
    /\ clientId \in DOMAIN clients
    /\ clients[clientId].auto_review_enabled
    /\ clients[clientId].google_review_link \notin {Null, ""}

\* Invocation r wrote the counter and timestamp of some contact.
Stamped(r) ==
    \E i \in DOMAIN customer_contacts :
        customer_contacts[i].last_review_request_at = r

\* C17: a POST /api/customers that created a contact attempts one review
\* SMS to that contact if and only if the tenant has auto-review enabled
\* and a review link; otherwise the contact is created and returned, no
\* message is sent and no counter or timestamp is written.
C17_AutoReviewIffEnabledAndLinked ==
    \A r \in Reqs :
        (req[r].kind = "customers" /\ req[r].primary = "ok") =>
            /\ PrimaryStored(r)
            /\ IF AutoReviewConfigured(req[r].clientId)
               THEN /\ Done(r) => Cardinality(SendsOf(r)) = 1
                    /\ \A i \in SendsOf(r) :
                          /\ sends[i].channel = "sms"
                          /\ sends[i].to \in {req[r].phone, normalizePhone(req[r].phone)}
               ELSE /\ SendsOf(r) = {}
                    /\ ~Stamped(r)
                    /\ req[r].update = "none"
                    /\ Done(r)
                    /\ req[r].resp = 201
                    /\ req[r].body = "customer"

\* C17 witness: one contact created for a tenant without auto-review, with
\* no message, and one created for a tenant with it, with a message sent
\* and the counter written.
C17_Witness ==
    \E r, q \in Reqs :
        /\ req[r].kind = "customers" /\ req[r].clientId = "bravo"
        /\ Done(r) /\ req[r].resp = 201 /\ PrimaryStored(r)
        /\ SendsOf(r) = {}
        /\ req[q].kind = "customers" /\ req[q].clientId = "acme"
        /\ Done(q) /\ req[q].resp = 201
        /\ \E i \in SendsOf(q) : sends[i].ok
        /\ Stamped(q)

\* The send of invocation r succeeded and its contact lookup or counter
\* update then failed.
FailedAfterSend(r) ==
    /\ req[r].kind \in {"review-request", "customers"}
    /\ \E i \in SendsOf(r) : sends[i].ok
    /\ \/ req[r].lookup \in {"error", "threw"}
       \/ req[r].update \in {"error", "threw"}

\* The success response of the handler.
SuccessOf(r) ==
    /\ Done(r)
    /\ req[r].kind = "review-request" => req[r].resp = 200 /\ req[r].body = "sent"
    /\ req[r].kind = "customers" => req[r].resp = 201 /\ req[r].body = "customer"

\* C18: after a successful review-request send, a failed contact lookup or
\* counter update is logged and swallowed: the handler still returns its
\* success response.
C18_FailureAfterSendLoggedAndSwallowed ==
    \A r \in Reqs : FailedAfterSend(r) => (req[r].logged /\ SuccessOf(r))

\* C18 witness: a manual review request whose SMS was sent and whose
\* counter update resolved with an error answered 200 with nothing logged.
C18_Witness ==
    \E r \in Reqs :
        /\ req[r].kind = "review-request"
        /\ \E i \in SendsOf(r) : sends[i].ok
        /\ req[r].update = "error"
        /\ ~req[r].logged
        /\ req[r].resp = 200

\* The contact rows that differ between this state and the next.
ChangedContacts ==
    {i \in DOMAIN customer_contacts :
        i \in DOMAIN customer_contacts' => customer_contacts'[i] # customer_contacts[i]}

HoldersOf(number) ==
    {t \in DOMAIN clients : clients[t].twilio_number = number}

\* C20: whatever tenants were created and updated, no two of them hold the
\* same non-empty twilio_number.
C20_TwilioNumberIdentifiesOneTenant ==
    \A s, t \in DOMAIN clients :
        (s # t /\ clients[s].twilio_number \notin {Null, ""})
            => clients[s].twilio_number # clients[t].twilio_number

\* C20 witness: a tenant was created with the number another tenant holds,
\* and a call to that number was then hung up for want of a single match.
C20_Witness ==
    \E r, q \in Reqs :
        /\ req[r].kind = "clients-post" /\ req[r].resp = 201
        /\ req[r].fields.twilio_number = "+15550001"
        /\ Cardinality(HoldersOf("+15550001")) = 2
        /\ req[q].kind = "voice" /\ Done(q) /\ r < q
        /\ req[q].To = "+15550001"
        /\ req[q].lookup = "ok"
        /\ req[q].dial = "Hangup"

\* ------------------------------------------------------------------------
\* Sends per invocation (specification Spec)
\* ------------------------------------------------------------------------

\* C23: an invocation of any handler attempts at most one outbound SMS or
\* email, and an invocation whose send failed is over: it attempts nothing
\* more.
C23_AtMostOneSendNoRetry ==
    \A r \in Reqs :
        /\ Cardinality(SendsOf(r)) <= 1
        /\ FailedSend(r) => Done(r)

\* C23 witness: a manual review request and a lead whose sends both failed,
\* each finished after its one attempt.
C23_Witness ==
    \E r, q \in Reqs :
        /\ req[r].kind = "review-request" /\ req[q].kind = "leads"
        /\ FailedSend(r) /\ FailedSend(q)
        /\ Done(r) /\ Done(q)
        /\ Cardinality(SendsOf(r)) = 1
        /\ Cardinality(SendsOf(q)) = 1

\* ------------------------------------------------------------------------
\* Counter against sends (specification SpecRace)
\* ------------------------------------------------------------------------

\* The invocations whose review SMS for this contact was sent: the
\* customer creation that inserted it, and the manual review requests
\* whose lookup returned it.
SentFor(row) ==
    {r \in Reqs :
        /\ req[r].kind \in {"customers", "review-request"}
        /\ req[r].rowId = row.id
        /\ req[r].clientId = row.client_id
        /\ \E i \in SendsOf(r) : sends[i].ok}

\* C25: the review_request_count of a contact is never greater than the
\* number of review SMS sent successfully for that contact.
C25_CounterAtMostSuccessfulSends ==
    \A i \in DOMAIN customer_contacts :
        customer_contacts[i].review_request_count
            <= Cardinality(SentFor(customer_contacts[i]))

\* C25 witness: two review SMS were sent for one contact and both counter
\* updates were applied, yet the counter is 1.
C25_Witness ==
    \E i \in DOMAIN customer_contacts, r, q \in Reqs :
        /\ r # q
        /\ {r, q} \subseteq SentFor(customer_contacts[i])
        /\ Done(r) /\ Done(q)
        /\ req[r].update = "ok" /\ req[q].update = "ok"
        /\ customer_contacts[i].review_request_count = 1

\* ------------------------------------------------------------------------
\* Counter and recipient (specification Spec)
\* ------------------------------------------------------------------------

\* The contacts of the tenant whose stored phone is the same number as
\* phone once both are normalized.
SameNumberContacts(clientId, phone) ==
    {i \in DOMAIN customer_contacts :
        /\ customer_contacts[i].client_id = clientId
        /\ normalizePhone(customer_contacts[i].phone) = normalizePhone(phone)}

\* C26: when the SMS of a manual review request was sent and the store
\* answers the lookup, a contact of the tenant whose stored phone
\* normalizes to the number the SMS went to is found, however either phone
\* was written, and it is that contact's counter the invocation goes on to
\* increment.
C26_CounterFollowsRecipient ==
    [][\A r \in Reqs :
        (/\ At(r, "review-request", "find")
         /\ req'[r].lookup = "ok"
         /\ SameNumberContacts(req[r].clientId, req[r].phone) # {})
            => /\ req'[r].pc = "update"
               /\ \E i \in SameNumberContacts(req[r].clientId, req[r].phone) :
                    customer_contacts[i].id = req'[r].rowId
      ]_vars

\* C26 witness: a contact stored as 4165551234, a manual review request for
\* +14165551234 of the same tenant: the SMS was sent to that number, the
\* lookup succeeded, and no contact was found or counted.
C26_Witness ==
    \E r \in Reqs, i \in DOMAIN customer_contacts :
        /\ req[r].kind = "review-request" /\ req[r].variant = "counting"
        /\ Done(r) /\ req[r].resp = 200
        /\ req[r].phone = PhoneCanonical
        /\ \E j \in SendsOf(r) : sends[j].ok /\ sends[j].to = PhoneCanonical
        /\ req[r].lookup = "ok"
        /\ req[r].rowId = NoRow
        /\ customer_contacts[i].id < r
        /\ customer_contacts[i].client_id = req[r].clientId
        /\ customer_contacts[i].phone = PhoneLocal
        /\ customer_contacts[i].last_review_request_at # r

\* ------------------------------------------------------------------------
\* Substitution (specification SpecRender)
\* ------------------------------------------------------------------------

\* The bindings whose pattern the text starts with.
Matching(text, bindings) ==
    {b \in bindings : StartsWith(text, b.pattern)}

\* One pass over the text putting every binding's value in place of every
\* match of its pattern; what is put in is not looked at again.
RECURSIVE Simultaneous(_, _)
Simultaneous(text, bindings) ==
    IF text = <<>> THEN <<>>
    ELSE IF Matching(text, bindings) # {}
         THEN LET b == CHOOSE m \in Matching(text, bindings) : TRUE
              IN  b.value \o Simultaneous(SubSeq(text, Len(b.pattern) + 1, Len(text)),
                                          bindings)
    ELSE <<Head(text)>> \o Simultaneous(Tail(text), bindings)

\* The same pass where each binding is used for its first match only.
RECURSIVE SimultaneousFirst(_, _)
SimultaneousFirst(text, bindings) ==
    IF text = <<>> THEN <<>>
    ELSE IF Matching(text, bindings) # {}
         THEN LET b == CHOOSE m \in Matching(text, bindings) : TRUE
              IN  b.value \o SimultaneousFirst(
                                 SubSeq(text, Len(b.pattern) + 1, Len(text)),
                                 bindings \ {b})
    ELSE <<Head(text)>> \o SimultaneousFirst(Tail(text), bindings)

ReviewBindings(client, name) ==
    {[pattern |-> Double("name"), value |-> OrElse(name, ReviewNameFallback)],
     [pattern |-> Double("business_name"), value |-> ReviewBizName(client)],
     [pattern |-> Double("review_link"), value |-> client.google_review_link]}

LeadBindings(client, name) ==
    {[pattern |-> Single("name"), value |-> name],
     [pattern |-> Single("business"), value |-> TeamBizName(client)],
     [pattern |-> Single("booking"), value |-> client.booking_link]}

\* C30: the body a templated handler builds equals the simultaneous
\* substitution of the placeholders of the template: a customer name or
\* business name that holds placeholder text is in the body as it was
\* given.
C30_ValuesInsertedVerbatim ==
    calc.fn = "smsBody" =>
        /\ \A h \in calc.built \cap {"review-request", "customers-templated"} :
             calc.body[h] =
                Simultaneous(OrElse(calc.client.review_sms_template,
                                    DEFAULT_REVIEW_TEMPLATE),
                             ReviewBindings(calc.client, calc.name))
        /\ "leads" \in calc.built =>
             calc.body["leads"] =
                SimultaneousFirst(OrElse(calc.client.custom_sms_template,
                                         DEFAULT_LEAD_TEMPLATE),
                                  LeadBindings(calc.client, calc.name))

\* C30 witness: the customer is named '{{review_link}}', the tenant's
\* template is 'Hi {{name}}', and the body of the review request is 'Hi '
\* followed by the tenant's review link.
C30_Witness ==
    /\ calc.fn = "smsBody"
    /\ calc.name = Double("review_link")
    /\ calc.client.review_sms_template = HiNameTemplate
    /\ "review-request" \in calc.built
    /\ calc.body["review-request"] = <<"Hi ">> \o calc.client.google_review_link
    /\ calc.body["review-request"] # <<"Hi ">> \o calc.name

\* ------------------------------------------------------------------------
\* Admin handlers (specification SpecAdmin)
\* ------------------------------------------------------------------------

\* The tokens of identities whose profile has the role admin.
AdminTokens == {"root"}

C22_CompensatingDelete ==
    \A r \in Reqs :
        (req[r].kind = "create-user" /\ Done(r) /\ req[r].primary = "failed")
            => /\ req[r].update # "none"
               /\ req[r].update = "ok" => req[r].userId \notin auth_users
               /\ req[r].update \in {"error", "threw"} =>
                    /\ req[r].logged
                    /\ req[r].body # "thrown"

\* C22 witness: the create handler that answers with a warning: the
\* profile upsert failed, the answer is 200, no delete was attempted and
\* the identity is there without a profile.
C22_Witness ==
    \E r \in Reqs :
        /\ req[r].kind = "create-user" /\ req[r].variant = "warning"
        /\ Done(r) /\ req[r].primary = "failed"
        /\ req[r].resp = 200 /\ req[r].body = "warning"
        /\ req[r].update = "none"
        /\ req[r].userId \in auth_users
        /\ ProfileOf(req[r].userId) = {}


\* A request that assigns a user to a tenant answers success in this step.
AssignReturns(r) ==
    /\ req[r].pc = "map"
    /\ req'[r].pc = "done"
    /\ req'[r].body \in {"ok", "user"}

\* C24: when a request that assigns a user to a tenant by delete-then-insert
\* returns success, the user has exactly one client_users row, and it
\* points at the tenant of the request, whatever other requests for the
\* same user did meanwhile.
C24_OneMappingAfterAssign ==
    [][\A r \in Reqs :
        AssignReturns(r) =>
            \E m \in client_users' :
                /\ m.client_id = req[r].clientId
                /\ {n \in client_users' : n.user_id = req[r].userId} = {m}
      ]_vars

\* C24 witness: two moveUserToClient requests for carol, to acme and to
\* bravo, overlap: both deletes ran before either insert, both answered ok,
\* and carol has the two rows they inserted.
C24_Witness ==
    \E r, q \in Reqs :
        /\ r # q
        /\ req[r].kind = "move-user" /\ req[q].kind = "move-user"
        /\ req[r].variant = "move" /\ req[q].variant = "move"
        /\ req[r].userId = "carol" /\ req[q].userId = "carol"
        /\ req[r].clientId = "acme" /\ req[q].clientId = "bravo"
        /\ Done(r) /\ req[r].resp = 200 /\ req[r].body = "ok"
        /\ Done(q) /\ req[q].resp = 200 /\ req[q].body = "ok"
        /\ MappingsOf("carol") =
                {[id |-> r, user_id |-> "carol", client_id |-> "acme"],
                 [id |-> q, user_id |-> "carol", client_id |-> "bravo"]}


\* C27: a delete-user that answers ok leaves no client_users row, profile
\* or identity of the user; one that answers with an error leaves the
\* user's profile and mappings as they were when the request arrived.
C27_DeleteAllOrNothing ==
    [][\A r \in Reqs :
        (At(r, "delete-user", "deleteUser") /\ req'[r].pc = "done")
            => /\ req'[r].resp = 200 =>
                    /\ req[r].userId \notin auth_users'
                    /\ ProfileOf(req[r].userId)' = {}
                    /\ MappingsOf(req[r].userId)' = {}
               /\ req'[r].resp # 200 => Snapshot(req[r].userId)' = req[r].before
      ]_vars

\* C27 witness: a delete of carol whose last step, the delete of the
\* identity, failed: the answer is 500, the identity is there, and the
\* profile and the mapping carol had are gone.
C27_Witness ==
    \E r \in Reqs :
        /\ req[r].kind = "delete-user" /\ req[r].variant = "checked"
        /\ req[r].userId = "carol"
        /\ Done(r) /\ req[r].resp = 500 /\ req[r].primary = "failed"
        /\ req[r].before = [profile |-> TRUE, clients |-> {"acme"}]
        /\ "carol" \in auth_users
        /\ ProfileOf("carol") = {}
        /\ MappingsOf("carol") = {}
        /\ \A q \in Reqs \ {r} : ~Started(q)

\* C28: when the insert of the new mapping fails in a reassignment, the
\* request is answered with an error and the mappings the user had when the
\* request arrived are still there.
C28_FailedAssignKeepsMapping ==
    [][\A r \in Reqs :
        (/\ At(r, "move-user", "map")
         /\ req'[r].pc = "done"
         /\ req'[r].primary = "failed")
            => /\ req'[r].resp = 500
               /\ req'[r].body = "error"
               /\ Snapshot(req[r].userId)'.clients = req[r].before.clients
      ]_vars

\* C28 witness: moveUserToClient of carol to bravo, alone: the delete ran,
\* the insert failed, the answer is 500 and carol, who was mapped to acme,
\* has no mapping.
C28_Witness ==
    \E r \in Reqs :
        /\ req[r].kind = "move-user" /\ req[r].variant = "move"
        /\ req[r].userId = "carol" /\ req[r].clientId = "bravo"
        /\ Done(r) /\ req[r].resp = 500 /\ req[r].primary = "failed"
        /\ req[r].before.clients = {"acme"}
        /\ MappingsOf("carol") = {}
        /\ \A q \in Reqs \ {r} : ~Started(q)


\* ------------------------------------------------------------------------
\* Tenant delete (specification SpecCascade)
\* ------------------------------------------------------------------------

\* A row of one of the four tables references the tenant.
References(clientId) ==
    \/ \E i \in DOMAIN leads : leads[i].client_id = clientId
    \/ \E i \in DOMAIN reviews : reviews[i].client_id = clientId
    \/ \E i \in DOMAIN customer_contacts : customer_contacts[i].client_id = clientId
    \/ \E m \in client_users : m.client_id = clientId

\* C29: once a tenant delete has answered ok, no lead, review, customer
\* contact or client_users row references the tenant, whatever public
\* posts for the tenant were under way.
C29_NoRowsAfterTenantDelete ==
    \A r \in Reqs :
        (req[r].kind = "clients-delete" /\ Done(r) /\ req[r].resp = 200)
            => ~References(req[r].clientId)

\* C29 witness: a lead was posted for acme and passed the tenant check;
\* the delete of acme then ran with every one of its deletes succeeding and
\* answered ok; the lead was inserted and answered 201.  Tenant acme is
\* gone and the lead references it.
C29_Witness ==
    \E r, q \in Reqs :
        /\ req[r].kind = "clients-delete" /\ req[r].clientId = "acme"
        /\ Done(r) /\ req[r].resp = 200 /\ req[r].update = "none"
        /\ "acme" \notin DOMAIN clients
        /\ req[q].kind = "leads" /\ req[q].clientId = "acme"
        /\ q < r
        /\ Done(q) /\ req[q].resp = 201
        /\ \E i \in DOMAIN leads : leads[i].id = q /\ leads[i].client_id = "acme"

=============================================================================
